---------------------------- MODULE Spec2Model ----------------------------
(***************************************************************************)
(* Model of src/pdf_page_filter.py: detection of printed page numbers in   *)
(* page text, the scan of a document's pages, the interpolation of page    *)
(* numbers for the pages on which none was detected, the parsing of a page *)
(* range expression, the selection of the requested pages, and the exit    *)
(* status of the command.                                                  *)
(*                                                                         *)
(* A page mapping (a Python dict: physical index -> printed number) is a   *)
(* function whose DOMAIN is the set of keys.  A text is a sequence of      *)
(* one-character strings.                                                  *)
(***************************************************************************)
EXTENDS Integers, Sequences, FiniteSets, TLC

VARIABLES
    pc,            \* where the modelled call stands
    pages,         \* reader.pages: per page, whether extract_text() raises
                   \* and the text it returns otherwise
    total_pages,   \* len(reader.pages)
    physical_idx,  \* the next value of the loop variable of the page scan
    text,          \* the text of the page given to the detector
    printed_num,   \* what extract_page_number_from_text returned
    page_mapping,  \* dict: physical index -> detected printed number
    log,           \* the per-page lines detect_page_numbers has printed
    interpolated,  \* the dict interpolate_missing_pages returns
    page_label,    \* the number printed on the page (0: not recorded)
    env,           \* what the run finds outside itself: the arguments and
                   \* answers given to main, which files exist, and the
                   \* error reading or writing the PDF raises, if any
    range_string,  \* the page range expression (page_ranges)
    tokens,        \* the tokens range_string was written from
    requested_pages,     \* what parse_page_ranges returned
    use_printed_numbers, \* its value at line 303
    output,        \* writer: the physical indices of the pages added, in
                   \* the order of the add_page calls
    pages_added,   \* the list pages_added
    warnings,      \* the requested numbers reported as not found
    written,       \* whether the run has written the output document
    success,       \* what filter_pdf_pages returned (FALSE before it has)
    exit_status    \* the status main has exited with (None before it has)

vars == <<pc, pages, total_pages, physical_idx, text, printed_num,
          page_mapping, log, interpolated, page_label, env, range_string,
          tokens, requested_pages, use_printed_numbers, output, pages_added,
          warnings, written, success, exit_status>>

\* the variables of a run of main and filter_pdf_pages
filterVars == <<env, range_string, tokens, requested_pages,
                use_printed_numbers, output, pages_added, warnings, written,
                success, exit_status>>

----------------------------------------------------------------------------
(* Bounds of the model.                                                    *)

\* Number of physical pages of the largest document given to interpolation.
MaxPages == 12
\* Largest number of detected entries (anchors) in an input page mapping.
MaxAnchors == 3
\* Printed numbers tried on the first anchor of an input page mapping.
FirstNums == {1, 2, 5, 10}
\* Numbers of physical pages of the documents given to interpolation.
DocSizes == {0, 1, 5, 10, MaxPages}
\* Largest number of lines of a sample text given to the detector.
MaxTextLines == 6
\* Largest number of blank lines before a numeral that is alone on a page.
MaxLead == 4
\* Largest number of pages of a document given to the page scan.
MaxDocPages == 4
\* Largest number of comma-separated tokens of a page range expression
\* given to parse_page_ranges.
MaxTokens == 3
\* Largest number of pages with a printed number in a document given to
\* filter_pdf_pages.
MaxFilterAnchors == 2
\* Number of physical pages of the largest document on which the three
\* passes of interpolation are compared.
MaxPassPages == 8
\* Numbers of physical pages of the documents of that comparison.
PassDocSizes == {1, 5, MaxPassPages}
\* Printed numbers tried on its first anchor: 9998 puts inferred numbers
\* beyond the limit of line 58.
PassFirstNums == {1, 2, 9998}
\* page_gap - phys_gap of its consecutive anchors: the perfect match, the
\* one skipped page, and one relation on each side of them.
PassDevs == {-1, 0, 1, 2}
\* page_gap - phys_gap of two consecutive anchors of an input page mapping:
\* the five relations inside the window of line 147 and one beyond each side.
Devs == {-3, -2, -1, 0, 1, 2, 3}

----------------------------------------------------------------------------
(* Python dict and list helpers.                                           *)

\* {} : the empty dict.
EmptyMap == <<>>

\* d[k] = v
Put(d, k, v) == [x \in (DOMAIN d) \cup {k} |-> IF x = k THEN v ELSE d[x]]

SetMin(S) == CHOOSE x \in S : \A y \in S : x <= y

\* sorted(S) as a sequence
RECURSIVE SortedSeq(_)
SortedSeq(S) ==
    IF S = {} THEN <<>>
    ELSE <<SetMin(S)>> \o SortedSeq(S \ {SetMin(S)})

----------------------------------------------------------------------------
(* interpolate_missing_pages                                               *)

\* interpolated = page_mapping.copy()  (faulty variant: start from an empty dict)
CopyOfMapping_Empty(m) == EmptyMap
CopyOfMapping(m) == m

\* phys_idx not in interpolated
NotIn(phys_idx, interp) == phys_idx \notin DOMAIN interp

\* line 147 (faulty variant: the upper limit of phys_gap off by one)
GapFillable_Upto11(phys_gap, page_gap) ==
    /\ phys_gap > 1
    /\ phys_gap <= 11
    /\ page_gap >= phys_gap - 2
    /\ page_gap <= phys_gap + 2
GapFillable(phys_gap, page_gap) ==
    /\ phys_gap > 1
    /\ phys_gap <= 10
    /\ page_gap >= phys_gap - 2
    /\ page_gap <= phys_gap + 2

\* line 153 (faulty variant: counts from one instead of from the anchor's number)
InferredInterior_FromOne(page_start, j) == 1 + j
InferredInterior(page_start, j) == page_start + j

\* lines 151-157: for j in range(j, phys_gap)
RECURSIVE PerfectFill(_, _, _, _, _)
PerfectFill(interp, phys_start, page_start, phys_gap, j) ==
    IF j >= phys_gap THEN interp
    ELSE LET phys_idx == phys_start + j
             inferred_page == InferredInterior(page_start, j)
             next == IF NotIn(phys_idx, interp)
                     THEN Put(interp, phys_idx, inferred_page)
                     ELSE interp
         IN  PerfectFill(next, phys_start, page_start, phys_gap, j + 1)

\* line 167 (faulty variant: <= instead of <)
StaysBelowEnd_Inclusive(expected_page, page_end) == expected_page <= page_end
StaysBelowEnd(expected_page, page_end) == expected_page < page_end

\* lines 162-174: for j in range(j, phys_gap), carrying current_page
RECURSIVE SkipOneFill(_, _, _, _, _, _)
SkipOneFill(interp, phys_start, page_end, phys_gap, j, current_page) ==
    IF j >= phys_gap THEN interp
    ELSE LET phys_idx == phys_start + j
             expected_page == current_page + 1
             fill == /\ NotIn(phys_idx, interp)
                     /\ StaysBelowEnd(expected_page, page_end)
         IN  SkipOneFill(IF fill THEN Put(interp, phys_idx, expected_page)
                                 ELSE interp,
                         phys_start, page_end, phys_gap, j + 1,
                         IF fill THEN expected_page ELSE current_page)

\* lines 135-174: the body of the loop over consecutive anchors, for the
\* pair detected_indices[i], detected_indices[i + 1] (1-based here)
FillPair(interp, mapping, detected_indices, i) ==
    LET phys_start == detected_indices[i]
        phys_end   == detected_indices[i + 1]
        page_start == mapping[phys_start]
        page_end   == mapping[phys_end]
        phys_gap   == phys_end - phys_start
        page_gap   == page_end - page_start
    IN  IF GapFillable(phys_gap, page_gap)
        THEN IF page_gap = phys_gap
             THEN PerfectFill(interp, phys_start, page_start, phys_gap, 1)
             ELSE IF page_gap = phys_gap - 1
                  THEN SkipOneFill(interp, phys_start, page_end, phys_gap,
                                   1, page_start)
                  ELSE interp
        ELSE interp

\* lines 134-174: for i in range(len(detected_indices) - 1), from pair i on
RECURSIVE InteriorPass(_, _, _, _)
InteriorPass(interp, mapping, detected_indices, i) ==
    IF i >= Len(detected_indices) THEN interp
    ELSE InteriorPass(FillPair(interp, mapping, detected_indices, i),
                      mapping, detected_indices, i + 1)

\* line 182 (faulty variant: the test on the room before the first anchor dropped)
BackfillApplies_NoRoomTest(first_page_num, first_detected) ==
    first_page_num > 1
BackfillApplies(first_page_num, first_detected) ==
    first_page_num > 1 /\ first_page_num - 1 <= first_detected

\* lines 183-190: for phys_idx in range(phys_idx, -1, -1), with its break
\* (faulty variant: the test inferred_page >= 1 of line 185 dropped)
RECURSIVE BackwardFill_NoFloor(_, _, _, _)
BackwardFill_NoFloor(interp, first_detected, first_page_num, phys_idx) ==
    IF phys_idx < 0 THEN interp
    ELSE LET inferred_page == first_page_num - (first_detected - phys_idx)
         IN  IF NotIn(phys_idx, interp)
             THEN BackwardFill_NoFloor(Put(interp, phys_idx, inferred_page),
                               first_detected, first_page_num, phys_idx - 1)
             ELSE interp
RECURSIVE BackwardFill(_, _, _, _)
BackwardFill(interp, first_detected, first_page_num, phys_idx) ==
    IF phys_idx < 0 THEN interp
    ELSE LET inferred_page == first_page_num - (first_detected - phys_idx)
         IN  IF inferred_page >= 1 /\ NotIn(phys_idx, interp)
             THEN BackwardFill(Put(interp, phys_idx, inferred_page),
                               first_detected, first_page_num, phys_idx - 1)
             ELSE interp

\* lines 177-190
\* (faulty variant: the pass starts from detected_indices[-1])
BackwardPass_FromLastAnchor(interp, mapping, detected_indices) ==
    IF detected_indices # <<>>
    THEN LET first_detected == detected_indices[Len(detected_indices)]
             first_page_num == mapping[first_detected]
         IN  IF BackfillApplies(first_page_num, first_detected)
             THEN BackwardFill(interp, first_detected, first_page_num,
                               first_detected - 1)
             ELSE interp
    ELSE interp
BackwardPass(interp, mapping, detected_indices) ==
    IF detected_indices # <<>>
    THEN LET first_detected == detected_indices[1]
             first_page_num == mapping[first_detected]
         IN  IF BackfillApplies(first_page_num, first_detected)
             THEN BackwardFill(interp, first_detected, first_page_num,
                               first_detected - 1)
             ELSE interp
    ELSE interp

\* lines 198-201 (faulty variant: the adjacency test of the last two anchors dropped)
ForwardApplies_NoAdjacency(detected_indices) ==
    Len(detected_indices) >= 2
ForwardApplies(detected_indices) ==
    /\ Len(detected_indices) >= 2
    /\ detected_indices[Len(detected_indices)]
         - detected_indices[Len(detected_indices) - 1] = 1

\* lines 203-208: for phys_idx in range(phys_idx, total_pages)
RECURSIVE ForwardFill(_, _, _, _, _)
ForwardFill(interp, last_detected, last_page_num, total, phys_idx) ==
    IF phys_idx >= total THEN interp
    ELSE LET inferred_page == last_page_num + (phys_idx - last_detected)
             next == IF NotIn(phys_idx, interp)
                     THEN Put(interp, phys_idx, inferred_page)
                     ELSE interp
         IN  ForwardFill(next, last_detected, last_page_num, total,
                         phys_idx + 1)

\* lines 193-208
\* (faulty variant: the anchors are read from the keys of interpolated)
ForwardPass_FromInterpolated(interp, mapping, detected_indices, total) ==
    IF detected_indices # <<>>
    THEN LET keys          == SortedSeq(DOMAIN interp)
             last_detected == keys[Len(keys)]
             last_page_num == interp[last_detected]
         IN  IF ForwardApplies(keys)
             THEN ForwardFill(interp, last_detected, last_page_num, total,
                              last_detected + 1)
             ELSE interp
    ELSE interp
ForwardPass(interp, mapping, detected_indices, total) ==
    IF detected_indices # <<>>
    THEN LET last_detected == detected_indices[Len(detected_indices)]
             last_page_num == mapping[last_detected]
         IN  IF ForwardApplies(detected_indices)
             THEN ForwardFill(interp, last_detected, last_page_num, total,
                              last_detected + 1)
             ELSE interp
    ELSE interp

\* lines 109-216
interpolate_missing_pages(mapping, total) ==
    IF DOMAIN mapping = {} THEN mapping
    ELSE LET detected_indices == SortedSeq(DOMAIN mapping)
             interior == InteriorPass(CopyOfMapping(mapping), mapping,
                                      detected_indices, 1)
             backward == BackwardPass(interior, mapping, detected_indices)
         IN  ForwardPass(backward, mapping, detected_indices, total)

----------------------------------------------------------------------------
(* extract_page_number_from_text                                           *)

\* Python's None as a return value: no captured integer is negative.
None == -1

\* The call raised ValueError instead of returning (line 56, int() of a
\* numeral of more than MaxStrDigits digits).
Raises == -2

\* A text is a sequence of characters, each a string.  An ASCII character
\* is the one-character string of itself; a character outside ASCII is the
\* string of its code point, "U+" and four to six upper-case hexadecimal
\* digits ("U+00A0" is the no-break space, "U+0663" ARABIC-INDIC DIGIT
\* THREE).

\* the ASCII characters with str.isspace(): space, \t, \n, \r, \f and
\* the control characters 0x0B, 0x1C, 0x1D, 0x1E and 0x1F
AsciiWhitespace ==
    {" ", "\t", "\n", "\r", "\f", "", "", "", "", ""}

\* the characters outside ASCII with str.isspace()
UnicodeWhitespace ==
    {"U+0085", "U+00A0", "U+1680", "U+2000", "U+2001", "U+2002",
     "U+2003", "U+2004", "U+2005", "U+2006", "U+2007", "U+2008",
     "U+2009", "U+200A", "U+2028", "U+2029", "U+202F", "U+205F",
     "U+3000"}

\* the characters str.strip() removes and \s matches (the pattern is a str
\* pattern, so \s and \d are the Unicode classes)
Whitespace == AsciiWhitespace \cup UnicodeWhitespace

\* the characters int() accepts around a numeral: those of str.isspace()
\* but for the four separators 0x1C-0x1F
IntWhitespace == Whitespace \ {"", "", "", ""}

\* the digits str(n) is written with
DigitChars == <<"0", "1", "2", "3", "4", "5", "6", "7", "8", "9">>

\* the other characters \d matches and int() reads: the decimal digits
\* (category Nd) of every script, each row the digits 0 to 9 of one script
UnicodeDigitRows ==
    <<
      <<"U+0660", "U+0661", "U+0662", "U+0663", "U+0664", "U+0665", "U+0666", "U+0667", "U+0668", "U+0669">>,
      <<"U+06F0", "U+06F1", "U+06F2", "U+06F3", "U+06F4", "U+06F5", "U+06F6", "U+06F7", "U+06F8", "U+06F9">>,
      <<"U+07C0", "U+07C1", "U+07C2", "U+07C3", "U+07C4", "U+07C5", "U+07C6", "U+07C7", "U+07C8", "U+07C9">>,
      <<"U+0966", "U+0967", "U+0968", "U+0969", "U+096A", "U+096B", "U+096C", "U+096D", "U+096E", "U+096F">>,
      <<"U+09E6", "U+09E7", "U+09E8", "U+09E9", "U+09EA", "U+09EB", "U+09EC", "U+09ED", "U+09EE", "U+09EF">>,
      <<"U+0A66", "U+0A67", "U+0A68", "U+0A69", "U+0A6A", "U+0A6B", "U+0A6C", "U+0A6D", "U+0A6E", "U+0A6F">>,
      <<"U+0AE6", "U+0AE7", "U+0AE8", "U+0AE9", "U+0AEA", "U+0AEB", "U+0AEC", "U+0AED", "U+0AEE", "U+0AEF">>,
      <<"U+0B66", "U+0B67", "U+0B68", "U+0B69", "U+0B6A", "U+0B6B", "U+0B6C", "U+0B6D", "U+0B6E", "U+0B6F">>,
      <<"U+0BE6", "U+0BE7", "U+0BE8", "U+0BE9", "U+0BEA", "U+0BEB", "U+0BEC", "U+0BED", "U+0BEE", "U+0BEF">>,
      <<"U+0C66", "U+0C67", "U+0C68", "U+0C69", "U+0C6A", "U+0C6B", "U+0C6C", "U+0C6D", "U+0C6E", "U+0C6F">>,
      <<"U+0CE6", "U+0CE7", "U+0CE8", "U+0CE9", "U+0CEA", "U+0CEB", "U+0CEC", "U+0CED", "U+0CEE", "U+0CEF">>,
      <<"U+0D66", "U+0D67", "U+0D68", "U+0D69", "U+0D6A", "U+0D6B", "U+0D6C", "U+0D6D", "U+0D6E", "U+0D6F">>,
      <<"U+0DE6", "U+0DE7", "U+0DE8", "U+0DE9", "U+0DEA", "U+0DEB", "U+0DEC", "U+0DED", "U+0DEE", "U+0DEF">>,
      <<"U+0E50", "U+0E51", "U+0E52", "U+0E53", "U+0E54", "U+0E55", "U+0E56", "U+0E57", "U+0E58", "U+0E59">>,
      <<"U+0ED0", "U+0ED1", "U+0ED2", "U+0ED3", "U+0ED4", "U+0ED5", "U+0ED6", "U+0ED7", "U+0ED8", "U+0ED9">>,
      <<"U+0F20", "U+0F21", "U+0F22", "U+0F23", "U+0F24", "U+0F25", "U+0F26", "U+0F27", "U+0F28", "U+0F29">>,
      <<"U+1040", "U+1041", "U+1042", "U+1043", "U+1044", "U+1045", "U+1046", "U+1047", "U+1048", "U+1049">>,
      <<"U+1090", "U+1091", "U+1092", "U+1093", "U+1094", "U+1095", "U+1096", "U+1097", "U+1098", "U+1099">>,
      <<"U+17E0", "U+17E1", "U+17E2", "U+17E3", "U+17E4", "U+17E5", "U+17E6", "U+17E7", "U+17E8", "U+17E9">>,
      <<"U+1810", "U+1811", "U+1812", "U+1813", "U+1814", "U+1815", "U+1816", "U+1817", "U+1818", "U+1819">>,
      <<"U+1946", "U+1947", "U+1948", "U+1949", "U+194A", "U+194B", "U+194C", "U+194D", "U+194E", "U+194F">>,
      <<"U+19D0", "U+19D1", "U+19D2", "U+19D3", "U+19D4", "U+19D5", "U+19D6", "U+19D7", "U+19D8", "U+19D9">>,
      <<"U+1A80", "U+1A81", "U+1A82", "U+1A83", "U+1A84", "U+1A85", "U+1A86", "U+1A87", "U+1A88", "U+1A89">>,
      <<"U+1A90", "U+1A91", "U+1A92", "U+1A93", "U+1A94", "U+1A95", "U+1A96", "U+1A97", "U+1A98", "U+1A99">>,
      <<"U+1B50", "U+1B51", "U+1B52", "U+1B53", "U+1B54", "U+1B55", "U+1B56", "U+1B57", "U+1B58", "U+1B59">>,
      <<"U+1BB0", "U+1BB1", "U+1BB2", "U+1BB3", "U+1BB4", "U+1BB5", "U+1BB6", "U+1BB7", "U+1BB8", "U+1BB9">>,
      <<"U+1C40", "U+1C41", "U+1C42", "U+1C43", "U+1C44", "U+1C45", "U+1C46", "U+1C47", "U+1C48", "U+1C49">>,
      <<"U+1C50", "U+1C51", "U+1C52", "U+1C53", "U+1C54", "U+1C55", "U+1C56", "U+1C57", "U+1C58", "U+1C59">>,
      <<"U+A620", "U+A621", "U+A622", "U+A623", "U+A624", "U+A625", "U+A626", "U+A627", "U+A628", "U+A629">>,
      <<"U+A8D0", "U+A8D1", "U+A8D2", "U+A8D3", "U+A8D4", "U+A8D5", "U+A8D6", "U+A8D7", "U+A8D8", "U+A8D9">>,
      <<"U+A900", "U+A901", "U+A902", "U+A903", "U+A904", "U+A905", "U+A906", "U+A907", "U+A908", "U+A909">>,
      <<"U+A9D0", "U+A9D1", "U+A9D2", "U+A9D3", "U+A9D4", "U+A9D5", "U+A9D6", "U+A9D7", "U+A9D8", "U+A9D9">>,
      <<"U+A9F0", "U+A9F1", "U+A9F2", "U+A9F3", "U+A9F4", "U+A9F5", "U+A9F6", "U+A9F7", "U+A9F8", "U+A9F9">>,
      <<"U+AA50", "U+AA51", "U+AA52", "U+AA53", "U+AA54", "U+AA55", "U+AA56", "U+AA57", "U+AA58", "U+AA59">>,
      <<"U+ABF0", "U+ABF1", "U+ABF2", "U+ABF3", "U+ABF4", "U+ABF5", "U+ABF6", "U+ABF7", "U+ABF8", "U+ABF9">>,
      <<"U+FF10", "U+FF11", "U+FF12", "U+FF13", "U+FF14", "U+FF15", "U+FF16", "U+FF17", "U+FF18", "U+FF19">>,
      <<"U+104A0", "U+104A1", "U+104A2", "U+104A3", "U+104A4", "U+104A5", "U+104A6", "U+104A7", "U+104A8", "U+104A9">>,
      <<"U+10D30", "U+10D31", "U+10D32", "U+10D33", "U+10D34", "U+10D35", "U+10D36", "U+10D37", "U+10D38", "U+10D39">>,
      <<"U+11066", "U+11067", "U+11068", "U+11069", "U+1106A", "U+1106B", "U+1106C", "U+1106D", "U+1106E", "U+1106F">>,
      <<"U+110F0", "U+110F1", "U+110F2", "U+110F3", "U+110F4", "U+110F5", "U+110F6", "U+110F7", "U+110F8", "U+110F9">>,
      <<"U+11136", "U+11137", "U+11138", "U+11139", "U+1113A", "U+1113B", "U+1113C", "U+1113D", "U+1113E", "U+1113F">>,
      <<"U+111D0", "U+111D1", "U+111D2", "U+111D3", "U+111D4", "U+111D5", "U+111D6", "U+111D7", "U+111D8", "U+111D9">>,
      <<"U+112F0", "U+112F1", "U+112F2", "U+112F3", "U+112F4", "U+112F5", "U+112F6", "U+112F7", "U+112F8", "U+112F9">>,
      <<"U+11450", "U+11451", "U+11452", "U+11453", "U+11454", "U+11455", "U+11456", "U+11457", "U+11458", "U+11459">>,
      <<"U+114D0", "U+114D1", "U+114D2", "U+114D3", "U+114D4", "U+114D5", "U+114D6", "U+114D7", "U+114D8", "U+114D9">>,
      <<"U+11650", "U+11651", "U+11652", "U+11653", "U+11654", "U+11655", "U+11656", "U+11657", "U+11658", "U+11659">>,
      <<"U+116C0", "U+116C1", "U+116C2", "U+116C3", "U+116C4", "U+116C5", "U+116C6", "U+116C7", "U+116C8", "U+116C9">>,
      <<"U+11730", "U+11731", "U+11732", "U+11733", "U+11734", "U+11735", "U+11736", "U+11737", "U+11738", "U+11739">>,
      <<"U+118E0", "U+118E1", "U+118E2", "U+118E3", "U+118E4", "U+118E5", "U+118E6", "U+118E7", "U+118E8", "U+118E9">>,
      <<"U+11950", "U+11951", "U+11952", "U+11953", "U+11954", "U+11955", "U+11956", "U+11957", "U+11958", "U+11959">>,
      <<"U+11C50", "U+11C51", "U+11C52", "U+11C53", "U+11C54", "U+11C55", "U+11C56", "U+11C57", "U+11C58", "U+11C59">>,
      <<"U+11D50", "U+11D51", "U+11D52", "U+11D53", "U+11D54", "U+11D55", "U+11D56", "U+11D57", "U+11D58", "U+11D59">>,
      <<"U+11DA0", "U+11DA1", "U+11DA2", "U+11DA3", "U+11DA4", "U+11DA5", "U+11DA6", "U+11DA7", "U+11DA8", "U+11DA9">>,
      <<"U+16A60", "U+16A61", "U+16A62", "U+16A63", "U+16A64", "U+16A65", "U+16A66", "U+16A67", "U+16A68", "U+16A69">>,
      <<"U+16AC0", "U+16AC1", "U+16AC2", "U+16AC3", "U+16AC4", "U+16AC5", "U+16AC6", "U+16AC7", "U+16AC8", "U+16AC9">>,
      <<"U+16B50", "U+16B51", "U+16B52", "U+16B53", "U+16B54", "U+16B55", "U+16B56", "U+16B57", "U+16B58", "U+16B59">>,
      <<"U+1D7CE", "U+1D7CF", "U+1D7D0", "U+1D7D1", "U+1D7D2", "U+1D7D3", "U+1D7D4", "U+1D7D5", "U+1D7D6", "U+1D7D7">>,
      <<"U+1D7D8", "U+1D7D9", "U+1D7DA", "U+1D7DB", "U+1D7DC", "U+1D7DD", "U+1D7DE", "U+1D7DF", "U+1D7E0", "U+1D7E1">>,
      <<"U+1D7E2", "U+1D7E3", "U+1D7E4", "U+1D7E5", "U+1D7E6", "U+1D7E7", "U+1D7E8", "U+1D7E9", "U+1D7EA", "U+1D7EB">>,
      <<"U+1D7EC", "U+1D7ED", "U+1D7EE", "U+1D7EF", "U+1D7F0", "U+1D7F1", "U+1D7F2", "U+1D7F3", "U+1D7F4", "U+1D7F5">>,
      <<"U+1D7F6", "U+1D7F7", "U+1D7F8", "U+1D7F9", "U+1D7FA", "U+1D7FB", "U+1D7FC", "U+1D7FD", "U+1D7FE", "U+1D7FF">>,
      <<"U+1E140", "U+1E141", "U+1E142", "U+1E143", "U+1E144", "U+1E145", "U+1E146", "U+1E147", "U+1E148", "U+1E149">>,
      <<"U+1E2F0", "U+1E2F1", "U+1E2F2", "U+1E2F3", "U+1E2F4", "U+1E2F5", "U+1E2F6", "U+1E2F7", "U+1E2F8", "U+1E2F9">>,
      <<"U+1E950", "U+1E951", "U+1E952", "U+1E953", "U+1E954", "U+1E955", "U+1E956", "U+1E957", "U+1E958", "U+1E959">>,
      <<"U+1FBF0", "U+1FBF1", "U+1FBF2", "U+1FBF3", "U+1FBF4", "U+1FBF5", "U+1FBF6", "U+1FBF7", "U+1FBF8", "U+1FBF9">>
    >>

DigitRows == <<DigitChars>> \o UnicodeDigitRows

\* the characters \d matches
Digits == UNION {{DigitRows[r][i] : i \in 1 .. 10} : r \in 1 .. Len(DigitRows)}

\* the value int() reads from a digit
DigitVal(c) ==
    IF \E i \in 1 .. 10 : DigitChars[i] = c
    THEN (CHOOSE i \in 1 .. 10 : DigitChars[i] = c) - 1
    ELSE (CHOOSE i \in 1 .. 10 :
              \E r \in 1 .. Len(UnicodeDigitRows) :
                  UnicodeDigitRows[r][i] = c) - 1

\* sys.get_int_max_str_digits(): int() raises ValueError for a numeral of
\* more digits
MaxStrDigits == 4300

\* A Python int has any number of digits, and the integers of the model are
\* 32 bits wide.  The int that int() gives is therefore held as the numeral
\* str() writes for it: its digits 0-9 without leading zeros, after "-" when
\* it is negative (<<"4", "2">> is 42, <<"-", "7">> is -7, <<"0">> is 0).
\* The numbers the program keeps within [1, 9999], the numbers of the page
\* mapping and the counts and indices of pages are held as integers.

\* str(n) for an integer n >= 0
RECURSIVE Decimal(_)
Decimal(n) ==
    IF n < 10 THEN <<DigitChars[n + 1]>>
    ELSE Decimal(n \div 10) \o <<DigitChars[(n % 10) + 1]>>

\* the Python int of the integer i
NumOf(i) == IF i < 0 THEN <<"-">> \o Decimal(0 - i) ELSE Decimal(i)

\* the value of a string of at most nine digits
RECURSIVE ValueOf(_)
ValueOf(s) ==
    IF s = <<>> THEN 0
    ELSE 10 * ValueOf(SubSeq(s, 1, Len(s) - 1)) + DigitVal(s[Len(s)])

\* the Python int n is negative / its numeral without the sign / -n
Negative(n) == n[1] = "-"
Magnitude(n) == IF Negative(n) THEN Tail(n) ELSE n
Negate(n) ==
    IF n = <<"0">> THEN n
    ELSE IF Negative(n) THEN Tail(n) ELSE <<"-">> \o n

\* the integer of a Python int of at most nine digits
IntOf(n) ==
    IF Negative(n) THEN 0 - ValueOf(Magnitude(n)) ELSE ValueOf(n)

\* x < y for two numerals without sign: x is shorter, or as long and
\* smaller at the first position at which they differ
MagnitudeLess(x, y) ==
    \/ Len(x) < Len(y)
    \/ /\ Len(x) = Len(y)
       /\ \E i \in 1 .. Len(x) :
              /\ DigitVal(x[i]) < DigitVal(y[i])
              /\ \A k \in 1 .. (i - 1) : x[k] = y[k]

\* a < b and a <= b for two Python ints
Less(a, b) ==
    IF Negative(a)
    THEN ~Negative(b) \/ MagnitudeLess(Magnitude(b), Magnitude(a))
    ELSE ~Negative(b) /\ MagnitudeLess(a, b)
LessEq(a, b) == a = b \/ Less(a, b)

\* the digits of s without its leading zeros
Significant(s) ==
    IF \A i \in 1 .. Len(s) : DigitVal(s[i]) = 0 THEN <<>>
    ELSE SubSeq(s, CHOOSE i \in 1 .. Len(s) :
                       /\ DigitVal(s[i]) # 0
                       /\ \A k \in 1 .. (i - 1) : DigitVal(s[k]) = 0,
                Len(s))

\* the numeral of a string of digits of any script without leading zeros
Numeral(digits) ==
    IF digits = <<>> THEN <<"0">>
    ELSE [i \in 1 .. Len(digits) |-> DigitChars[DigitVal(digits[i]) + 1]]

\* int(s) of a string of at most MaxStrDigits digits
ToInt(s) == Numeral(Significant(s))

\* str.lower() on the letters the patterns name (re.IGNORECASE)
Lower(c) ==
    CASE c = "P" -> "p"
      [] c = "A" -> "a"
      [] c = "G" -> "g"
      [] c = "E" -> "e"
      [] OTHER -> c

\* s without the characters of chars at its start / at its end
LStripOf(s, chars) ==
    IF \A i \in 1 .. Len(s) : s[i] \in chars THEN <<>>
    ELSE SubSeq(s, CHOOSE i \in 1 .. Len(s) :
                       /\ s[i] \notin chars
                       /\ \A k \in 1 .. (i - 1) : s[k] \in chars,
                Len(s))
RStripOf(s, chars) ==
    IF \A i \in 1 .. Len(s) : s[i] \in chars THEN <<>>
    ELSE SubSeq(s, 1, CHOOSE i \in 1 .. Len(s) :
                          /\ s[i] \notin chars
                          /\ \A k \in (i + 1) .. Len(s) : s[k] \in chars)

\* text.strip()
LStrip(s) == LStripOf(s, Whitespace)
RStrip(s) == RStripOf(s, Whitespace)
Strip(s) == RStrip(LStrip(s))

\* s.split('\n')
RECURSIVE Split(_)
Split(s) ==
    IF \A i \in 1 .. Len(s) : s[i] # "\n" THEN <<s>>
    ELSE LET i == CHOOSE i \in 1 .. Len(s) :
                      s[i] = "\n" /\ \A k \in 1 .. (i - 1) : s[k] # "\n"
         IN  <<SubSeq(s, 1, i - 1)>> \o Split(SubSeq(s, i + 1, Len(s)))

\* line 39: the slice [:5]  (faulty variant: the slice forgotten)
TopLines_NoSlice(lines) == lines
TopLines(lines) ==
    SubSeq(lines, 1, IF Len(lines) < 5 THEN Len(lines) ELSE 5)

\* the character at position i of a line (1-based), "" past its end
At(line, i) == IF 1 <= i /\ i <= Len(line) THEN line[i] ELSE ""

\* the end of the longest run of characters of chars that starts at
\* position i of the line: the first position from i on that holds none
SkipRun(line, i, chars) ==
    IF At(line, i) \notin chars THEN i
    ELSE CHOOSE j \in (i + 1) .. (Len(line) + 1) :
             /\ At(line, j) \notin chars
             /\ \A k \in i .. (j - 1) : line[k] \in chars

\* the end of a greedy \s* that starts at position i
SkipSpace(line, i) == SkipRun(line, i, Whitespace)

\* the end of a greedy \d* that starts at position i
SkipDigits(line, i) == SkipRun(line, i, Digits)

\* re.search found nothing; a match is represented by its group(1)
NoMatch == <<>>

\* line 45: ^\s*(\d+)\s*$
Pattern1(line) ==
    LET a == SkipSpace(line, 1)
        b == SkipDigits(line, a)
        c == SkipSpace(line, b)
    IN  IF b > a /\ c = Len(line) + 1 THEN SubSeq(line, a, b - 1)
        ELSE NoMatch

\* line 46: ^\s*-?\s*(\d+)\s*-?\s*$
Pattern2(line) ==
    LET a0 == SkipSpace(line, 1)
        a1 == IF At(line, a0) = "-" THEN a0 + 1 ELSE a0
        a  == SkipSpace(line, a1)
        b  == SkipDigits(line, a)
        c0 == SkipSpace(line, b)
        c1 == IF At(line, c0) = "-" THEN c0 + 1 ELSE c0
        c  == SkipSpace(line, c1)
    IN  IF b > a /\ c = Len(line) + 1 THEN SubSeq(line, a, b - 1)
        ELSE NoMatch

\* line 47: ^\s*Page\s+(\d+), ignoring case
Pattern3(line) ==
    LET p == SkipSpace(line, 1)
        a == SkipSpace(line, p + 4)
        b == SkipDigits(line, a)
    IN  IF /\ Lower(At(line, p)) = "p"
           /\ Lower(At(line, p + 1)) = "a"
           /\ Lower(At(line, p + 2)) = "g"
           /\ Lower(At(line, p + 3)) = "e"
           /\ a > p + 4
           /\ b > a
        THEN SubSeq(line, a, b - 1)
        ELSE NoMatch

\* line 48: ^\s*P\.?\s*(\d+), ignoring case
Pattern4(line) ==
    LET p  == SkipSpace(line, 1)
        a0 == IF At(line, p + 1) = "." THEN p + 2 ELSE p + 1
        a  == SkipSpace(line, a0)
        b  == SkipDigits(line, a)
    IN  IF Lower(At(line, p)) = "p" /\ b > a THEN SubSeq(line, a, b - 1)
        ELSE NoMatch

\* line 49: (?:^|\s)(\d{1,4})(?:\s|$) matches with its group at position
\* i: a run of one to four digits between whitespace or the line's edges
Pattern5At(line, i) ==
    /\ i = 1 \/ At(line, i - 1) \in Whitespace
    /\ At(line, i) \in Digits
    /\ SkipDigits(line, i) - i <= 4
    /\ \/ SkipDigits(line, i) = Len(line) + 1
       \/ At(line, SkipDigits(line, i)) \in Whitespace

\* line 49: the leftmost match from position i on
Pattern5From(line, i) ==
    LET starts == {j \in i .. Len(line) : Pattern5At(line, j)}
    IN  IF starts = {} THEN NoMatch
        ELSE SubSeq(line, SetMin(starts), SkipDigits(line, SetMin(starts)) - 1)

Pattern5(line) == Pattern5From(line, 1)

\* lines 44-50 and 54: re.search(patterns[k-1], line, re.IGNORECASE)
Search(k, line) ==
    CASE k = 1 -> Pattern1(line)
      [] k = 2 -> Pattern2(line)
      [] k = 3 -> Pattern3(line)
      [] k = 4 -> Pattern4(line)
      [] k = 5 -> Pattern5(line)

\* line 58  (faulty variant: the upper limit exclusive)
Plausible_Below9999(page_num) ==
    LessEq(NumOf(1), page_num) /\ Less(page_num, NumOf(9999))
Plausible(page_num) ==
    LessEq(NumOf(1), page_num) /\ LessEq(page_num, NumOf(9999))

\* line 56: int() raises ValueError for a numeral of more than
\* MaxStrDigits digits, leading zeros counted
TooLong(numeral) == Len(numeral) > MaxStrDigits

\* lines 53-59: for pattern in patterns, from pattern k on; None when the
\* loop ends without a return, Raises when line 56 raises
RECURSIVE ScanPatterns(_, _)
ScanPatterns(line, k) ==
    IF k > 5 THEN None
    ELSE LET match == Search(k, line)
         IN  IF match = NoMatch THEN ScanPatterns(line, k + 1)
             ELSE IF TooLong(match) THEN Raises
             ELSE IF Plausible(ToInt(match)) THEN IntOf(ToInt(match))
             ELSE ScanPatterns(line, k + 1)

\* lines 52-61: for line in lines, from line i on; the first line that
\* returns or raises ends the loop
RECURSIVE ScanLines(_, _)
ScanLines(lines, i) ==
    IF i > Len(lines) THEN None
    ELSE LET found == ScanPatterns(lines[i], 1)
         IN  IF found # None THEN found ELSE ScanLines(lines, i + 1)

\* lines 25-61: the number returned, None, or Raises
extract_page_number_from_text(t) ==
    IF t = <<>> THEN None
    ELSE ScanLines(TopLines(Split(Strip(t))), 1)

----------------------------------------------------------------------------
(* detect_page_numbers                                                     *)

\* line 90: if printed_num (None and 0 are false)
Truthy(num) == num # None /\ num # 0

\* lines 90-91: the mapping after the page at physical index idx gave num
RecordDetection(mapping, idx, num) ==
    IF Truthy(num) THEN Put(mapping, idx, num) ELSE mapping

\* lines 82-83 and 98-100: the except clause is inside the loop body, so the
\* loop goes on with the next index  (faulty variant: the exception ends the scan)
IndexAfterError_ScanEnds(idx, total) == total
IndexAfterError(idx, total) == idx + 1

\* line 82: range(total_pages) has a next index / is exhausted
MorePages == pc = "scan" /\ physical_idx < total_pages
NoMorePages == pc = "scan" /\ physical_idx >= total_pages

\* lines 82-100: one iteration of for physical_idx in range(total_pages)
ScanPage ==
    /\ MorePages
    /\ LET page == pages[physical_idx + 1]
       IN  IF page.raises
           THEN /\ physical_idx' = IndexAfterError(physical_idx, total_pages)
                /\ log' = Append(log, [page |-> physical_idx + 1,
                                       said |-> "Error extracting text"])
                /\ UNCHANGED <<text, printed_num, page_mapping>>
           ELSE LET num == extract_page_number_from_text(page.text)
                IN  IF num = Raises
                    THEN /\ text' = page.text
                         /\ physical_idx' =
                                IndexAfterError(physical_idx, total_pages)
                         /\ log' = Append(log,
                                [page |-> physical_idx + 1,
                                 said |-> "Error extracting text"])
                         /\ UNCHANGED <<printed_num, page_mapping>>
                    ELSE
                    /\ text' = page.text
                    /\ printed_num' = num
                    /\ page_mapping' =
                           RecordDetection(page_mapping, physical_idx, num)
                    /\ log' = Append(log,
                           [page |-> physical_idx + 1,
                            said |-> IF Truthy(num)
                                     THEN "Printed page number"
                                     ELSE "No page number detected"])
                    /\ physical_idx' = physical_idx + 1
    /\ UNCHANGED <<pc, pages, total_pages, interpolated, page_label,
                   env, range_string, tokens, requested_pages,
                   use_printed_numbers, output, pages_added, warnings,
                   written, success, exit_status>>

\* lines 102-106: the loop is over; return page_mapping
ReturnMapping ==
    /\ NoMorePages
    /\ pc' = "detected"
    /\ UNCHANGED <<pages, total_pages, physical_idx, text, printed_num,
                   page_mapping, log, interpolated, page_label,
                   env, range_string, tokens, requested_pages,
                   use_printed_numbers, output, pages_added, warnings,
                   written, success, exit_status>>

----------------------------------------------------------------------------
(* The run of main and filter_pdf_pages before it has started.             *)

\* no argument, no answer, no file, no error
NoEnv == [input_path |-> "", input_exists |-> FALSE, output_exists |-> FALSE,
          confirm |-> <<>>, pdf_error |-> "none"]

FilterIdle ==
    /\ env = NoEnv
    /\ range_string = <<>>
    /\ tokens = <<>>
    /\ requested_pages = <<>>
    /\ use_printed_numbers = TRUE
    /\ output = <<>>
    /\ pages_added = <<>>
    /\ warnings = <<>>
    /\ written = FALSE
    /\ success = FALSE
    /\ exit_status = None

----------------------------------------------------------------------------
(* Specification SpecInterp: interpolate_missing_pages called once on a    *)
(* page mapping as detection can produce it (keys in 0..total_pages-1,     *)
(* values >= 1).                                                           *)

\* The sets of physical indices on which a number was detected.
AnchorSets(total) ==
    {S \in SUBSET (0 .. total - 1) : Cardinality(S) <= MaxAnchors}

RECURSIVE SumDev(_, _)
SumDev(dev, n) == IF n <= 0 THEN 0 ELSE dev[n] + SumDev(dev, n - 1)

\* The mapping with keys S whose first anchor carries `first` and whose
\* consecutive anchors have page_gap = phys_gap + dev[i].
AnchorMap(S, first, dev) ==
    [k \in S |-> first + (k - SetMin(S))
                   + SumDev(dev, Cardinality({x \in S : x < k}))]

InitInterp ==
    /\ pc = "call"
    /\ FilterIdle
    /\ interpolated = EmptyMap
    /\ text = <<>>
    /\ page_label = 0
    /\ printed_num = None
    /\ pages = <<>>
    /\ physical_idx = 0
    /\ log = <<>>
    /\ \E total \in DocSizes :
       \E S \in AnchorSets(total) :
       \E first \in FirstNums :
       \E dev \in [1 .. Cardinality(S) - 1 -> Devs] :
          LET m == AnchorMap(S, first, dev)
          IN  /\ \A k \in S : m[k] >= 1
              /\ total_pages = total
              /\ page_mapping = m

\* filter_pdf_pages line 299: the call and its return value
Interpolate ==
    /\ pc = "call"
    /\ interpolated' = interpolate_missing_pages(page_mapping, total_pages)
    /\ pc' = "returned"
    /\ UNCHANGED <<pages, total_pages, physical_idx, text, printed_num,
                   page_mapping, log, page_label,
                   env, range_string, tokens, requested_pages,
                   use_printed_numbers, output, pages_added, warnings,
                   written, success, exit_status>>

NextInterp == Interpolate

SpecInterp == InitInterp /\ [][NextInterp]_vars

\* The same call on the page mappings on which its three passes are
\* compared.
InitPasses ==
    /\ pc = "call"
    /\ FilterIdle
    /\ interpolated = EmptyMap
    /\ text = <<>>
    /\ page_label = 0
    /\ printed_num = None
    /\ pages = <<>>
    /\ physical_idx = 0
    /\ log = <<>>
    /\ \E total \in PassDocSizes :
       \E S \in AnchorSets(total) :
       \E first \in PassFirstNums :
       \E dev \in [1 .. Cardinality(S) - 1 -> PassDevs] :
          LET m == AnchorMap(S, first, dev)
          IN  /\ \A k \in S : m[k] >= 1 /\ m[k] <= 9999
              /\ total_pages = total
              /\ page_mapping = m

SpecPasses == InitPasses /\ [][NextInterp]_vars

----------------------------------------------------------------------------
(* Specification SpecExtract: extract_page_number_from_text called once on *)
(* a sample text.                                                          *)

\* '\n'.join(lines)
RECURSIVE JoinLines(_)
JoinLines(lines) ==
    IF lines = <<>> THEN <<>>
    ELSE IF Len(lines) = 1 THEN lines[1]
    ELSE lines[1] \o <<"\n">> \o JoinLines(Tail(lines))

\* The lines the multi-line sample texts are made of: an empty line, words,
\* a numeral inside words (pattern 5 only), a bare numeral (pattern 1), a
\* bare 0 (matched and rejected) and a "Page" label (pattern 3).
SampleLines ==
    { <<>>,
      <<"a", "b">>,
      <<"a", " ", "1", "2">>,
      <<"7">>,
      <<"0">>,
      <<"P", "a", "g", "e", " ", "3">> }

MultiLineTexts ==
    {JoinLines(ls) : ls \in UNION {[1 .. n -> SampleLines] :
                                       n \in 0 .. MaxTextLines}}

\* Sample texts for each pattern and each way it can fail.
PatternTexts ==
    { <<" ", "4", "2", "\t">>,
      <<"9", "9", "9", "9">>,
      <<"1", "0", "0", "0", "0">>,
      <<"0", "0", "0", "1", "2">>,
      <<"-", " ", "5", " ", "-">>,
      <<"-", "5">>,
      <<"5", "-">>,
      <<"-", "-", "5">>,
      <<"-", "0", "-">>,
      <<"p", "a", "g", "e", " ", " ", "1", "2">>,
      <<"P", "A", "G", "E", " ", "8", "x">>,
      <<"P", "a", "g", "e", "3">>,
      <<"P", "a", "g", "e", " ", "0">>,
      <<"P", "a", "g", "e", " ", "1", "0", "0", "0", "0", " ", "5">>,
      <<"P", "a", " ", "3">>,
      <<"P", ".", "4">>,
      <<"p", " ", "5">>,
      <<"P", "6">>,
      <<"P", ".", " ", "6", "x">>,
      <<"P", ".", ".", "6">>,
      <<"x", " ", "1", "2", "3", "4", "5", " ", "6">>,
      <<"a", "1", "2", " ", "b">>,
      <<"0", " ", "8">>,
      <<"1", "2", ".", "5">>,
      <<" ">>,
      <<"\n", "\n", "7", "\n">> }

\* Sample texts with whitespace other than blank, tab and newline, and with
\* digits other than 0-9.
UnicodeTexts ==
    { <<"", "7">>,
      <<"7", "">>,
      <<" ", "", " ", "7", "">>,
      <<"U+00A0", "7">>,
      <<"a", "b", "\n", "", "7">>,
      <<"P", "a", "g", "e", "", "5">>,
      <<"P", "a", "g", "e", "U+00A0", "5">>,
      <<"P", ".", "U+2003", "5">>,
      <<"a", "", "7">>,
      <<"a", "U+3000", "1", "2", "", "b">>,
      <<"-", "U+0085", "5", "\r", "-">>,
      <<"U+0663">>,
      <<"U+FF17", "U+0663">>,
      <<"1", "U+0663", "U+1D7CE">>,
      <<"P", "a", "g", "e", " ", "U+0967", "2">>,
      <<"U+0660">>,
      <<"x", " ", "U+0661", "U+0662", "U+0663", "U+0664", "U+0665", " ", "6">>,
      <<"U+00A0", "\n", "U+00A0", "\n", "7", "\n", "">> }

\* n times the character c
Repeat(c, n) == [i \in 1 .. n |-> c]

\* Sample texts with a numeral of MaxStrDigits digits, which int() reads, and
\* of one digit more, for which it raises.
LongTexts ==
    { Repeat("1", MaxStrDigits + 1) \o <<"\n", "7">>,
      Repeat("1", MaxStrDigits) \o <<"\n", "7">>,
      <<" ", " ", " ">> \o Repeat("0", MaxStrDigits) \o <<"7">>,
      Repeat("0", MaxStrDigits - 1) \o <<"7">>,
      <<"7", "\n">> \o Repeat("1", MaxStrDigits + 1),
      <<"x", " ">> \o Repeat("1", MaxStrDigits + 1) \o <<" ", "7">>,
      <<"P">> \o Repeat("U+0663", MaxStrDigits + 1) \o <<"\n", "7">> }

InitExtract ==
    /\ pc = "call"
    /\ FilterIdle
    /\ text \in MultiLineTexts \cup PatternTexts \cup UnicodeTexts \cup LongTexts
    /\ printed_num = None
    /\ page_label = 0
    /\ pages = <<>>
    /\ total_pages = 0
    /\ physical_idx = 0
    /\ page_mapping = EmptyMap
    /\ log = <<>>
    /\ interpolated = EmptyMap

\* detect_page_numbers line 88: the call, and its return value or the
\* exception it raises (nothing is assigned then)
Extract ==
    /\ pc = "call"
    /\ LET result == extract_page_number_from_text(text)
       IN  IF result = Raises
           THEN pc' = "raised" /\ UNCHANGED printed_num
           ELSE pc' = "returned" /\ printed_num' = result
    /\ UNCHANGED <<pages, total_pages, physical_idx, text, page_mapping,
                   log, interpolated, page_label,
                   env, range_string, tokens, requested_pages,
                   use_printed_numbers, output, pages_added, warnings,
                   written, success, exit_status>>

NextExtract == Extract

SpecExtract == InitExtract /\ [][NextExtract]_vars

----------------------------------------------------------------------------
(* Specification SpecNumeral: extract_page_number_from_text called once on *)
(* a page whose text is nothing but its page number.                       *)

\* k newline characters
RECURSIVE BlankLines(_)
BlankLines(k) == IF k <= 0 THEN <<>> ELSE <<"\n">> \o BlankLines(k - 1)

InitNumeral ==
    /\ pc = "call"
    /\ FilterIdle
    /\ page_label \in 1 .. 9999
    /\ \E lead \in 0 .. MaxLead :
       \E pad \in {<<>>, <<" ">>} :
       \E tail \in {<<>>, <<"\n">>} :
          text = BlankLines(lead) \o pad \o Decimal(page_label) \o pad \o tail
    /\ printed_num = None
    /\ pages = <<>>
    /\ total_pages = 0
    /\ physical_idx = 0
    /\ page_mapping = EmptyMap
    /\ log = <<>>
    /\ interpolated = EmptyMap

SpecNumeral == InitNumeral /\ [][NextExtract]_vars

----------------------------------------------------------------------------
(* Specification SpecDetect: detect_page_numbers run on a document.        *)

\* The texts of the pages that extract_text() returns.
PageTexts ==
    { <<>>,
      <<"7">>,
      <<"0">>,
      <<"a", "b">>,
      <<"P", "a", "g", "e", " ", "3">> }

PageKinds ==
    {[raises |-> TRUE, text |-> <<>>]}
        \cup {[raises |-> FALSE, text |-> t] : t \in PageTexts}

\* a page whose text starts with a numeral int() raises for
LongPage ==
    [raises |-> FALSE, text |-> Repeat("1", MaxStrDigits + 1) \o <<"\n", "7">>]

\* documents with such a page
LongDocs ==
    { <<LongPage>>,
      <<[raises |-> FALSE, text |-> <<"7">>], LongPage,
        [raises |-> FALSE, text |-> <<"P", "a", "g", "e", " ", "3">>]>>,
      <<LongPage, [raises |-> TRUE, text |-> <<>>],
        [raises |-> FALSE, text |-> <<"U+00A0", "U+0663">>]>> }

InitDetect ==
    /\ pc = "scan"
    /\ FilterIdle
    /\ pages \in UNION {[1 .. n -> PageKinds] : n \in 0 .. MaxDocPages}
                  \cup LongDocs
    /\ total_pages = Len(pages)
    /\ physical_idx = 0
    /\ text = <<>>
    /\ printed_num = None
    /\ page_mapping = EmptyMap
    /\ log = <<>>
    /\ interpolated = EmptyMap
    /\ page_label = 0

NextDetect == ScanPage \/ ReturnMapping

SpecDetect == InitDetect /\ [][NextDetect]_vars

----------------------------------------------------------------------------
(* parse_page_ranges                                                       *)

\* s.split(c)
RECURSIVE SplitOn(_, _)
SplitOn(s, c) ==
    IF \A i \in 1 .. Len(s) : s[i] # c THEN <<s>>
    ELSE LET i == CHOOSE i \in 1 .. Len(s) :
                      s[i] = c /\ \A k \in 1 .. (i - 1) : s[k] # c
         IN  <<SubSeq(s, 1, i - 1)>> \o SplitOn(SubSeq(s, i + 1, Len(s)), c)

\* int(s) raised ValueError
ValueError == <<>>

\* the digits of a numeral in which single underscores separate digits
WithoutUnderscores(s) == SelectSeq(s, LAMBDA c : c # "_")

\* int(s): <<n>> with the Python int n, or ValueError.  int() accepts whitespace around the
\* numeral, one sign before it, and single underscores between its digits,
\* and at most MaxStrDigits digits.
PyInt(s) ==
    LET t       == RStripOf(LStripOf(s, IntWhitespace), IntWhitespace)
        signed  == t # <<>> /\ t[1] \in {"+", "-"}
        numeral == IF signed THEN Tail(t) ELSE t
        wellFormed ==
            /\ numeral # <<>>
            /\ \A i \in 1 .. Len(numeral) : numeral[i] \in Digits \cup {"_"}
            /\ numeral[1] # "_"
            /\ numeral[Len(numeral)] # "_"
            /\ \A i \in 1 .. (Len(numeral) - 1) :
                   ~(numeral[i] = "_" /\ numeral[i + 1] = "_")
        digits  == WithoutUnderscores(numeral)
        value   == ToInt(digits)
    IN  IF ~wellFormed \/ TooLong(digits) THEN ValueError
        ELSE IF signed /\ t[1] = "-" THEN <<Negate(value)>>
        ELSE <<value>>

\* line 239: '-' in part
HasDash(part) == \E i \in 1 .. Len(part) : part[i] = "-"

\* line 241: part.split('-', 1) cuts at the first '-'
FirstDash(part) ==
    CHOOSE i \in 1 .. Len(part) :
        part[i] = "-" /\ \A k \in 1 .. (i - 1) : part[k] # "-"

\* the numeral x + 1 of a numeral x without sign: the last digit that is
\* not 9 goes up by one and the 9s after it become 0
MagnitudeSucc(x) ==
    IF \A i \in 1 .. Len(x) : x[i] = "9"
    THEN <<"1">> \o [i \in 1 .. Len(x) |-> "0"]
    ELSE [i \in 1 .. Len(x) |->
             IF \E k \in (i + 1) .. Len(x) : x[k] # "9" THEN x[i]
             ELSE IF x[i] # "9" THEN DigitChars[DigitVal(x[i]) + 2]
             ELSE "0"]

\* a numeral without sign is h * 10^9 + l: the numeral h of its digits
\* before the last nine and the integer l of its last nine digits
High(x) == IF Len(x) <= 9 THEN <<"0">> ELSE SubSeq(x, 1, Len(x) - 9)
Low(x) == ValueOf(IF Len(x) <= 9 THEN x ELSE SubSeq(x, Len(x) - 8, Len(x)))
Join(h, l) ==
    IF h = <<"0">> THEN Decimal(l)
    ELSE h \o [i \in 1 .. 9 |-> DigitChars[((l \div 10^(9 - i)) % 10) + 1]]

\* the numerals without sign from x to y, for x <= y
RECURSIVE MagnitudeRange(_, _)
MagnitudeRange(x, y) ==
    IF High(x) = High(y) THEN {Join(High(x), l) : l \in Low(x) .. Low(y)}
    ELSE {Join(High(x), l) : l \in Low(x) .. (10^9 - 1)}
             \cup MagnitudeRange(Join(MagnitudeSucc(High(x)), 0), y)

\* the Python ints from a to b, none when b < a
NumbersFromTo(a, b) ==
    IF Less(b, a) THEN {}
    ELSE IF ~Negative(a) THEN MagnitudeRange(a, b)
    ELSE IF Negative(b)
    THEN {Negate(m) : m \in MagnitudeRange(Magnitude(b), Magnitude(a))}
    ELSE {Negate(m) : m \in MagnitudeRange(<<"1">>, Magnitude(a))}
             \cup MagnitudeRange(<<"0">>, b)

\* line 249: range(start, end + 1)  (faulty variant: range(start, end))
RangeNumbers_Exclusive(start, end) == NumbersFromTo(start, end) \ {end}
RangeNumbers(start, end) == NumbersFromTo(start, end)

\* lines 234-259: one iteration of for part in parts, on the set pages
ParsePart(page_set, part) ==
    IF part = <<>> THEN page_set
    ELSE IF HasDash(part)
    THEN LET i     == FirstDash(part)
             start == PyInt(Strip(SubSeq(part, 1, i - 1)))
             end   == PyInt(Strip(SubSeq(part, i + 1, Len(part))))
         IN  IF start = ValueError \/ end = ValueError THEN page_set
             ELSE IF Less(end[1], start[1]) THEN page_set
             ELSE page_set \cup RangeNumbers(start[1], end[1])
    ELSE LET n == PyInt(part)
         IN  IF n = ValueError THEN page_set ELSE page_set \cup {n[1]}

\* lines 232-259: parts = [part.strip() for ...] and the loop over parts
RECURSIVE ParseParts(_, _, _)
ParseParts(parts, i, page_set) ==
    IF i > Len(parts) THEN page_set
    ELSE ParseParts(parts, i + 1, ParsePart(page_set, Strip(parts[i])))

\* the sequence s from its last element to its first
Reversed(s) == [i \in 1 .. Len(s) |-> s[Len(s) + 1 - i]]

\* sorted() of a set of Python ints: each number with the number of smaller
\* ones in the set, and the number with i - 1 smaller ones at position i
Ranked(S) == {<<Cardinality({y \in S : Less(y, x)}), x>> : x \in S}
InOrder(ranked) ==
    [i \in 1 .. Cardinality(ranked) |->
        (CHOOSE p \in ranked : p[1] = i - 1)[2]]

\* line 261: sorted(list(pages))  (faulty variant: sorted with reverse=True)
SortedPages_Descending(page_set) == Reversed(InOrder(Ranked(page_set)))
SortedPages(page_set) == InOrder(Ranked(page_set))

\* lines 219-261
parse_page_ranges(range_str) ==
    SortedPages(ParseParts(SplitOn(range_str, ","), 1, {}))

----------------------------------------------------------------------------
(* Specification SpecParse: parse_page_ranges called once on a page range  *)
(* expression written from tokens: numbers, ranges, and tokens that are    *)
(* neither.                                                                *)

\* k spaces
RECURSIVE Spaces(_)
Spaces(k) == IF k <= 0 THEN <<>> ELSE <<" ">> \o Spaces(k - 1)

\* the number n / the range a-b, written with pad spaces around its parts
NumToken(n, pad) ==
    [kind |-> "num", a |-> n, b |-> n, pad |-> pad, junk |-> <<>>]
\* the number n written as chars: with other whitespace, other digits, a
\* sign, underscores or leading zeros
WrittenToken(n, chars) ==
    [kind |-> "num", a |-> n, b |-> n, pad |-> 0, junk |-> chars]
RangeToken(a, b, pad) ==
    [kind |-> "range", a |-> a, b |-> b, pad |-> pad, junk |-> <<>>]
\* a token that is neither a number nor a range of two numbers
JunkToken(chars) ==
    [kind |-> "junk", a |-> 0, b |-> 0, pad |-> 0, junk |-> chars]
\* a number of any size, written as str() writes it
NumeralToken(chars) ==
    [kind |-> "numeral", a |-> 0, b |-> 0, pad |-> 0, junk |-> chars]
\* the range of two numbers written as the digits of lead and one digit
\* more, a and b
WideRangeToken(lead, a, b) ==
    [kind |-> "wide", a |-> a, b |-> b, pad |-> 0, junk |-> lead]

\* the characters of a token
RenderToken(t) ==
    CASE t.kind = "num" /\ t.junk # <<>> -> t.junk
      [] t.kind = "num" ->
             Spaces(t.pad) \o Decimal(t.a) \o Spaces(t.pad)
      [] t.kind = "range" ->
             Decimal(t.a) \o Spaces(t.pad) \o <<"-">> \o Spaces(t.pad)
                 \o Decimal(t.b)
      [] t.kind = "wide" ->
             t.junk \o Decimal(t.a) \o <<"-">> \o t.junk \o Decimal(t.b)
      [] OTHER -> t.junk

\* ','.join of the tokens
RECURSIVE RenderTokens(_)
RenderTokens(ts) ==
    IF ts = <<>> THEN <<>>
    ELSE IF Len(ts) = 1 THEN RenderToken(ts[1])
    ELSE RenderToken(ts[1]) \o <<",">> \o RenderTokens(Tail(ts))

JunkTexts ==
    { <<>>,
      <<"x">>,
      <<"2", "-", "x">>,
      <<"-", "5">>,
      <<"3", "-">>,
      <<"1", "-", "2", "-", "3">>,
      <<"1", ".", "5">>,
      <<"1", "", "2">>,
      <<"+", "", "5">>,
      <<"1", "_", "_", "2">>,
      <<"U+00A0">> }

WrittenTokens ==
    { WrittenToken(3, <<"U+0663">>),
      WrittenToken(5, <<"", "5", "">>),
      WrittenToken(17, <<"U+00A0", "+", "1", "_", "U+FF17", "U+2003">>),
      WrittenToken(4, <<"0", "0", "4">>) }

\* page range expressions with a numeral of MaxStrDigits + 1 digits, for
\* which int() raises, of MaxStrDigits digits, which it reads, and with
\* numbers of more than 31 bits about 2147483647
LongTokenLists ==
    LET lead == <<"2", "1", "4", "7", "4", "8", "3", "6", "4">>
    IN  { <<JunkToken(Repeat("1", MaxStrDigits + 1)), NumToken(2, 0)>>,
          <<RangeToken(1, 3, 0), JunkToken(Repeat("0", MaxStrDigits + 1))>>,
          <<WrittenToken(6, Repeat("0", MaxStrDigits - 1) \o <<"6">>),
            NumToken(2, 1)>>,
          <<NumeralToken(Repeat("9", MaxStrDigits)),
            NumeralToken(<<"1">> \o Repeat("0", MaxStrDigits - 1)),
            NumToken(10, 0)>>,
          <<NumeralToken(lead \o <<"8">>)>>,
          <<NumeralToken(lead \o <<"7">>), NumeralToken(lead \o <<"8">>)>>,
          <<NumToken(5, 0), NumeralToken(lead \o <<"8">>), NumToken(2, 0)>>,
          <<NumeralToken(<<"4", "2", "9", "4", "9", "6", "7", "2", "9", "6">>),
            NumeralToken(lead \o <<"8">>)>>,
          <<WideRangeToken(lead, 7, 8)>>,
          <<WideRangeToken(lead, 5, 9), NumToken(3, 0),
            WideRangeToken(lead, 8, 6)>>,
          <<WideRangeToken(<<"9", "9", "9", "9", "9", "9", "9", "9">>, 8, 9),
            RangeToken(999999999, 1000000001, 0)>> }

TokenLibrary ==
    {NumToken(n, pad) : n \in {0, 2, 10}, pad \in {0, 1}}
        \cup {RangeToken(a, b, 0) : a \in {1, 3}, b \in {1, 3}}
        \cup {RangeToken(2, 4, 1)}
        \cup {JunkToken(chars) : chars \in JunkTexts}
        \cup WrittenTokens

InitParse ==
    /\ pc = "parse"
    /\ tokens \in UNION {[1 .. n -> TokenLibrary] : n \in 0 .. MaxTokens}
                   \cup LongTokenLists
    /\ range_string = RenderTokens(tokens)
    /\ requested_pages = <<>>
    /\ env = NoEnv
    /\ use_printed_numbers = TRUE
    /\ output = <<>>
    /\ pages_added = <<>>
    /\ warnings = <<>>
    /\ written = FALSE
    /\ success = FALSE
    /\ exit_status = None
    /\ pages = <<>>
    /\ total_pages = 0
    /\ physical_idx = 0
    /\ text = <<>>
    /\ printed_num = None
    /\ page_mapping = EmptyMap
    /\ log = <<>>
    /\ interpolated = EmptyMap
    /\ page_label = 0

\* filter_pdf_pages line 275: the call and its return value
Parse ==
    /\ pc = "parse"
    /\ requested_pages' = parse_page_ranges(range_string)
    /\ pc' = "parsed"
    /\ UNCHANGED <<pages, total_pages, physical_idx, text, printed_num,
                   page_mapping, log, interpolated, page_label, env,
                   range_string, tokens, use_printed_numbers, output,
                   pages_added, warnings, written, success, exit_status>>

NextParse == Parse

SpecParse == InitParse /\ [][NextParse]_vars

----------------------------------------------------------------------------
(* filter_pdf_pages                                                        *)

\* detect_page_numbers lines 82-100: the loop from physical index idx on
RECURSIVE DetectFrom(_, _, _)
DetectFrom(doc, idx, mapping) ==
    IF idx >= Len(doc) THEN mapping
    ELSE IF \/ doc[idx + 1].raises
            \/ extract_page_number_from_text(doc[idx + 1].text) = Raises
    THEN DetectFrom(doc, IndexAfterError(idx, Len(doc)), mapping)
    ELSE DetectFrom(doc, idx + 1,
             RecordDetection(mapping, idx,
                 extract_page_number_from_text(doc[idx + 1].text)))

\* lines 64-106: the call of line 291
detect_page_numbers(doc) == DetectFrom(doc, 0, EmptyMap)

\* lines 93, 96 and 100: the lines the loop prints from physical index idx
\* on, after those of lines
RECURSIVE PrintedFrom(_, _, _)
PrintedFrom(doc, idx, lines) ==
    IF idx >= Len(doc) THEN lines
    ELSE IF \/ doc[idx + 1].raises
            \/ extract_page_number_from_text(doc[idx + 1].text) = Raises
    THEN PrintedFrom(doc, IndexAfterError(idx, Len(doc)),
             Append(lines, [page |-> idx + 1,
                            said |-> "Error extracting text"]))
    ELSE PrintedFrom(doc, idx + 1,
             Append(lines,
                 [page |-> idx + 1,
                  said |-> IF Truthy(extract_page_number_from_text(
                                         doc[idx + 1].text))
                           THEN "Printed page number"
                           ELSE "No page number detected"]))

\* line 311: the keys of page_mapping in the order of page_mapping.items(),
\* the order in which they were inserted: the detected keys as the scan met
\* them, then the keys of the interior pass pair by pair, then those of the
\* backward pass from the first anchor down, then those of the forward pass.
ItemsOrder(detected, final) ==
    IF DOMAIN detected = {} THEN <<>>
    ELSE LET keys  == SortedSeq(DOMAIN detected)
             first == keys[1]
             last  == keys[Len(keys)]
             new   == (DOMAIN final) \ (DOMAIN detected)
         IN  keys
               \o SortedSeq({k \in new : first < k /\ k < last})
               \o Reversed(SortedSeq({k \in new : k < first}))
               \o SortedSeq({k \in new : k > last})

\* lines 310-314 and 319: printed_to_physical[printed_num] for a requested
\* number, empty when the number is not a key  (faulty variant: only the first index is kept)
PhysicalOf_FirstOnly(mapping, order, requested_num) ==
    LET all == SelectSeq(order, LAMBDA k : NumOf(mapping[k]) = requested_num)
    IN  IF all = <<>> THEN <<>> ELSE <<all[1]>>
PhysicalOf(mapping, order, requested_num) ==
    SelectSeq(order, LAMBDA k : NumOf(mapping[k]) = requested_num)

\* line 301: an empty writer and pages_added = []
NothingAdded == [output |-> <<>>, pages_added |-> <<>>, warnings |-> <<>>]

\* lines 317-324: for requested_num in requested_pages
\* (faulty variant: the first number without a page ends the loop)
RECURSIVE SelectPrinted_AbortOnMiss(_, _, _, _, _)
SelectPrinted_AbortOnMiss(mapping, order, requested, i, acc) ==
    IF i > Len(requested) THEN acc
    ELSE LET requested_num == requested[i]
             found == PhysicalOf(mapping, order, requested_num)
         IN  IF found # <<>>
             THEN SelectPrinted_AbortOnMiss(mapping, order, requested, i + 1,
                      [acc EXCEPT
                          !.output = @ \o found,
                          !.pages_added =
                              @ \o [j \in 1 .. Len(found) |-> requested_num]])
             ELSE [acc EXCEPT !.warnings = Append(@, requested_num)]
RECURSIVE SelectPrinted(_, _, _, _, _)
SelectPrinted(mapping, order, requested, i, acc) ==
    IF i > Len(requested) THEN acc
    ELSE LET requested_num == requested[i]
             found == PhysicalOf(mapping, order, requested_num)
         IN  IF found # <<>>
             THEN SelectPrinted(mapping, order, requested, i + 1,
                      [acc EXCEPT
                          !.output = @ \o found,
                          !.pages_added =
                              @ \o [j \in 1 .. Len(found) |-> requested_num]])
             ELSE SelectPrinted(mapping, order, requested, i + 1,
                      [acc EXCEPT !.warnings = Append(@, requested_num)])

\* line 330  (faulty variant: the lower limit dropped)
InRange_NoLower(page_num, total) == LessEq(page_num, NumOf(total))
InRange(page_num, total) ==
    LessEq(NumOf(1), page_num) /\ LessEq(page_num, NumOf(total))

\* lines 329-335: for page_num in requested_pages
RECURSIVE SelectPhysical(_, _, _, _)
SelectPhysical(requested, total, i, acc) ==
    IF i > Len(requested) THEN acc
    ELSE LET page_num == requested[i]
         IN  IF InRange(page_num, total)
             THEN SelectPhysical(requested, total, i + 1,
                      [acc EXCEPT !.output = Append(@, IntOf(page_num) - 1),
                                  !.pages_added = Append(@, page_num)])
             ELSE SelectPhysical(requested, total, i + 1,
                      [acc EXCEPT !.warnings = Append(@, page_num)])

\* lines 303-335: the if and its else
\* (faulty variant: the else branch runs after the if branch)
SelectPages_BothModes(printed, mapping, order, requested, total) ==
    IF printed /\ DOMAIN mapping # {}
    THEN SelectPhysical(requested, total, 1,
             SelectPrinted(mapping, order, requested, 1, NothingAdded))
    ELSE SelectPhysical(requested, total, 1, NothingAdded)
SelectPages(printed, mapping, order, requested, total) ==
    IF printed /\ DOMAIN mapping # {}
    THEN SelectPrinted(mapping, order, requested, 1, NothingAdded)
    ELSE SelectPhysical(requested, total, 1, NothingAdded)

\* The errors reading or writing the PDF can raise: PdfReader(input_path)
\* raises FileNotFoundError or another exception (line 285), or opening or
\* writing the output file raises (lines 342-343).
PdfErrors == {"none", "FileNotFoundError", "ReadError", "WriteError"}

\* what the call leaves behind and returns when it returns before the
\* selection: lines 277-279 (no requested page), lines 348-355 (PdfReader
\* raised)
ReturnedEarly(requested) ==
    [success |-> FALSE, requested_pages |-> requested, total_pages |-> 0,
     use_printed_numbers |-> TRUE, detected |-> EmptyMap,
     page_mapping |-> EmptyMap, output |-> <<>>, pages_added |-> <<>>,
     warnings |-> <<>>, written |-> FALSE, log |-> <<>>]

\* lines 337-346 and 351-355: False when no page was added or when writing
\* the output raised, True after the output was written
AfterSelection(requested, total, detected, printed, final, picked, err) ==
    LET wrote == picked.pages_added # <<>> /\ err # "WriteError"
    IN  [success |-> wrote, requested_pages |-> requested,
         total_pages |-> total,
         use_printed_numbers |-> (DOMAIN detected # {}),
         detected |-> detected, page_mapping |-> final,
         output |-> picked.output, pages_added |-> picked.pages_added,
         warnings |-> picked.warnings, written |-> wrote,
         log |-> printed]

\* lines 300-335: the selection, in the mode lines 293-296 left
AfterInterpolation(requested, total, detected, printed, final, pdf_error) ==
    AfterSelection(requested, total, detected, printed, final,
        SelectPages(DOMAIN detected # {}, final,
                    ItemsOrder(detected, final), requested, total),
        pdf_error)

\* lines 293-299: no detection turns use_printed_numbers off and skips the
\* interpolation
AfterDetection(requested, total, detected, printed, pdf_error) ==
    AfterInterpolation(requested, total, detected, printed,
        IF DOMAIN detected = {} THEN detected
        ELSE interpolate_missing_pages(detected, total),
        pdf_error)

\* lines 277-291
AfterParse(requested, doc, pdf_error) ==
    IF requested = <<>> THEN ReturnedEarly(requested)
    ELSE IF pdf_error \in {"FileNotFoundError", "ReadError"}
    THEN ReturnedEarly(requested)
    ELSE AfterDetection(requested, Len(doc), detect_page_numbers(doc),
                        PrintedFrom(doc, 0, <<>>), pdf_error)

\* lines 264-355, called with use_printed_numbers=True: what the call
\* leaves behind and returns
filter_pdf_pages(page_ranges, doc, pdf_error) ==
    AfterParse(parse_page_ranges(page_ranges), doc, pdf_error)

\* the state after the call returned r
FilterReturns(r) ==
    /\ requested_pages' = r.requested_pages
    /\ total_pages' = r.total_pages
    /\ use_printed_numbers' = r.use_printed_numbers
    /\ page_mapping' = r.detected
    /\ interpolated' = r.page_mapping
    /\ output' = r.output
    /\ pages_added' = r.pages_added
    /\ warnings' = r.warnings
    /\ written' = r.written
    /\ success' = r.success
    /\ log' = r.log

\* main lines 411-412: the call of filter_pdf_pages and its return value
CallFilter ==
    /\ pc = "filter"
    /\ FilterReturns(filter_pdf_pages(range_string, pages, env.pdf_error))
    /\ pc' = "filtered"
    /\ UNCHANGED <<pages, physical_idx, text, printed_num, page_label,
                   env, range_string, tokens, exit_status>>

----------------------------------------------------------------------------
(* main                                                                    *)

\* str.lower() on the letters of an answer
AnswerLower(c) ==
    CASE c = "Y" -> "y"
      [] c = "N" -> "n"
      [] OTHER -> c

\* lines 404-405: input(...).strip().lower() is 'y'
Confirms(answer) ==
    LET stripped == Strip(answer)
    IN  [i \in 1 .. Len(stripped) |-> AnswerLower(stripped[i])] = <<"y">>

\* lines 370-390: an input path was given, the file exists and a page range
\* expression was given
ArgumentsAccepted ==
    /\ env.input_path # ""
    /\ env.input_exists
    /\ range_string # <<>>

\* lines 403-407: the output file exists and the answer is not y
OverwriteDeclined == env.output_exists /\ ~Confirms(env.confirm)

\* line 414: 0 if success else 1  (faulty variant: always 0)
ExitStatus_AlwaysZero(ok) == 0
ExitStatus(ok) == IF ok THEN 0 ELSE 1

\* lines 370-372, 376-378, 388-390: sys.exit(1)
RejectArguments ==
    /\ pc = "main"
    /\ ~ArgumentsAccepted
    /\ exit_status' = 1
    /\ pc' = "exited"
    /\ UNCHANGED <<pages, total_pages, physical_idx, text, printed_num,
                   page_mapping, log, interpolated, page_label, env,
                   range_string, tokens, requested_pages,
                   use_printed_numbers, output, pages_added, warnings,
                   written, success>>

\* lines 403-407: "Operation cancelled", sys.exit(0)
CancelOverwrite ==
    /\ pc = "main"
    /\ ArgumentsAccepted
    /\ OverwriteDeclined
    /\ exit_status' = 0
    /\ pc' = "exited"
    /\ UNCHANGED <<pages, total_pages, physical_idx, text, printed_num,
                   page_mapping, log, interpolated, page_label, env,
                   range_string, tokens, requested_pages,
                   use_printed_numbers, output, pages_added, warnings,
                   written, success>>

\* lines 364-409: main reaches the call of filter_pdf_pages
StartFilter ==
    /\ pc = "main"
    /\ ArgumentsAccepted
    /\ ~OverwriteDeclined
    /\ pc' = "filter"
    /\ UNCHANGED <<pages, total_pages, physical_idx, text, printed_num,
                   page_mapping, log, interpolated, page_label, env,
                   range_string, tokens, requested_pages,
                   use_printed_numbers, output, pages_added, warnings,
                   written, success, exit_status>>

\* line 414: sys.exit(0 if success else 1)
Exit ==
    /\ pc = "filtered"
    /\ exit_status' = ExitStatus(success)
    /\ pc' = "exited"
    /\ UNCHANGED <<pages, total_pages, physical_idx, text, printed_num,
                   page_mapping, log, interpolated, page_label, env,
                   range_string, tokens, requested_pages,
                   use_printed_numbers, output, pages_added, warnings,
                   written, success>>

----------------------------------------------------------------------------
(* Specifications SpecFilter and SpecMain: filter_pdf_pages called once,   *)
(* and main run once, on a document whose pages carry their printed number *)
(* alone or a text without a number.                                       *)

\* Numbers of physical pages of the documents.
FilterDocSizes == {0, 3, 10}
\* Printed numbers tried on the first numbered page of a document.
FilterFirstNums == {1, 2}
\* page_gap - phys_gap of consecutive numbered pages of a document.
FilterDevs == {-1, 0, 1}

\* The sets of physical indices of the numbered pages.
FilterAnchorSets(total) ==
    {S \in SUBSET (0 .. total - 1) : Cardinality(S) <= MaxFilterAnchors}

\* reader.pages of a document of total pages of which those of labels carry
\* their number
DocOf(total, labels) ==
    [i \in 1 .. total |->
        IF (i - 1) \in DOMAIN labels
        THEN [raises |-> FALSE, text |-> Decimal(labels[i - 1])]
        ELSE [raises |-> FALSE, text |-> <<"a", "b">>]]

\* The documents of the given numbers of pages.
Docs(sizes) ==
    UNION { UNION { UNION {
        { DocOf(total, AnchorMap(S, first, dev)) :
            dev \in {d \in [1 .. Cardinality(S) - 1 -> FilterDevs] :
                       \A k \in S : AnchorMap(S, first, d)[k] >= 1} }
        : first \in FilterFirstNums }
        : S \in FilterAnchorSets(total) }
        : total \in sizes }

\* Documents with a page whose extract_text raises.
RaisingDocs ==
    { <<[raises |-> TRUE, text |-> <<>>],
        [raises |-> FALSE, text |-> <<"2">>]>>,
      <<[raises |-> FALSE, text |-> <<"1">>],
        [raises |-> TRUE, text |-> <<>>],
        [raises |-> FALSE, text |-> <<"a", "b">>]>>,
      <<[raises |-> TRUE, text |-> <<>>]>> }

\* The page range expressions, as sequences of tokens.
Requests ==
    { <<>>,
      <<NumToken(1, 0)>>,
      <<NumToken(1, 0), NumToken(5, 0), NumToken(10, 0)>>,
      <<NumToken(10, 0), NumToken(5, 0), NumToken(1, 0)>>,
      <<NumToken(1, 0), NumToken(1, 0)>>,
      <<RangeToken(1, 3, 0), RangeToken(2, 5, 0)>>,
      <<NumToken(0, 0), NumToken(2, 1)>>,
      <<NumToken(3, 0), JunkToken(<<"x">>), NumToken(2, 0)>>,
      <<NumToken(2, 0), NumToken(11, 0)>>,
      <<NumToken(99, 0)>>,
      <<JunkToken(<<"x">>)>>,
      <<RangeToken(3, 1, 0)>>,
      <<NumToken(2, 0),
        NumeralToken(<<"2", "1", "4", "7", "4", "8", "3", "6", "4", "8">>)>> }

InitFilter ==
    /\ pc = "filter"
    /\ env \in [input_path : {"in.pdf"}, input_exists : {TRUE},
                output_exists : {FALSE}, confirm : {<<>>},
                pdf_error : PdfErrors]
    /\ pages \in Docs(FilterDocSizes) \cup RaisingDocs
    /\ tokens \in Requests
    /\ range_string = RenderTokens(tokens)
    /\ requested_pages = <<>>
    /\ use_printed_numbers = TRUE
    /\ output = <<>>
    /\ pages_added = <<>>
    /\ warnings = <<>>
    /\ written = FALSE
    /\ success = FALSE
    /\ exit_status = None
    /\ total_pages = 0
    /\ physical_idx = 0
    /\ text = <<>>
    /\ printed_num = None
    /\ page_mapping = EmptyMap
    /\ log = <<>>
    /\ interpolated = EmptyMap
    /\ page_label = 0

NextFilter == CallFilter

SpecFilter == InitFilter /\ [][NextFilter]_vars

\* The answers to the question of line 404.
Answers == { <<"y">>, <<" ", "Y">>, <<"n">>, <<>> }

\* Numbers of physical pages of the documents given to main.
MainDocSizes == {0, 3}

\* The page range expressions given to main.
MainRequests ==
    { <<>>,
      <<NumToken(1, 0)>>,
      <<NumToken(3, 0), JunkToken(<<"x">>), NumToken(2, 0)>>,
      <<NumToken(99, 0)>>,
      <<JunkToken(<<"x">>)>>,
      <<NumToken(2, 0),
        NumeralToken(<<"2", "1", "4", "7", "4", "8", "3", "6", "4", "8">>)>> }

InitMain ==
    /\ pc = "main"
    /\ env \in [input_path : {"", "in.pdf"}, input_exists : BOOLEAN,
                output_exists : BOOLEAN, confirm : Answers,
                pdf_error : PdfErrors]
    /\ env.input_path = "" => ~env.input_exists
    /\ pages \in Docs(MainDocSizes) \cup RaisingDocs
    /\ tokens \in MainRequests
    /\ range_string = RenderTokens(tokens)
    /\ requested_pages = <<>>
    /\ use_printed_numbers = TRUE
    /\ output = <<>>
    /\ pages_added = <<>>
    /\ warnings = <<>>
    /\ written = FALSE
    /\ success = FALSE
    /\ exit_status = None
    /\ total_pages = 0
    /\ physical_idx = 0
    /\ text = <<>>
    /\ printed_num = None
    /\ page_mapping = EmptyMap
    /\ log = <<>>
    /\ interpolated = EmptyMap
    /\ page_label = 0

NextMain ==
    RejectArguments \/ CancelOverwrite \/ StartFilter \/ CallFilter \/ Exit

SpecMain == InitMain /\ [][NextMain]_vars

----------------------------------------------------------------------------
(* Properties of interpolate_missing_pages, read in the state reached by   *)
(* its return.                                                             *)

Returned == pc = "returned"

\* a and b are consecutive anchors: detected indices with none in between
ConsecutiveAnchors(a, b) ==
    /\ a \in DOMAIN page_mapping
    /\ b \in DOMAIN page_mapping
    /\ a < b
    /\ \A x \in DOMAIN page_mapping : ~(a < x /\ x < b)

FirstAnchor == SetMin(DOMAIN page_mapping)
LastAnchor == CHOOSE x \in DOMAIN page_mapping :
                  \A y \in DOMAIN page_mapping : y <= x

\* the indices the call added to the mapping
Inferred == (DOMAIN interpolated) \ (DOMAIN page_mapping)

\* C1: the returned mapping restricted to the keys of the input mapping is
\* the input mapping: every detected entry keeps its detected number.
C1_DetectedEntriesKept ==
    Returned =>
        \A k \in DOMAIN page_mapping :
            k \in DOMAIN interpolated /\ interpolated[k] = page_mapping[k]

\* C1 witness: a call in which all three passes inferred entries (between
\* two anchors, before the first anchor and after the last one).
C1_Witness ==
    /\ Returned
    /\ DOMAIN page_mapping # {}
    /\ \E k \in Inferred : k < FirstAnchor
    /\ \E k \in Inferred : k > LastAnchor
    /\ \E k \in Inferred : FirstAnchor < k /\ k < LastAnchor

\* C2: between consecutive anchors (idx1,num1), (idx2,num2) with
\* 2 <= idx2-idx1 <= 10 and num2-num1 = idx2-idx1, every interior index
\* idx1+j is mapped to num1+j.
C2_PerfectMatchFill ==
    Returned =>
        \A idx1, idx2 \in DOMAIN page_mapping :
            ( /\ ConsecutiveAnchors(idx1, idx2)
              /\ 2 <= idx2 - idx1
              /\ idx2 - idx1 <= 10
              /\ page_mapping[idx2] - page_mapping[idx1] = idx2 - idx1 )
            => \A j \in 1 .. (idx2 - idx1 - 1) :
                   /\ idx1 + j \in DOMAIN interpolated
                   /\ interpolated[idx1 + j] = page_mapping[idx1] + j

\* C2 witness: anchors 0 -> 10 and 5 -> 15 gave 1..4 the numbers 11..14.
C2_Witness ==
    /\ Returned
    /\ DOMAIN page_mapping = {0, 5}
    /\ page_mapping[0] = 10
    /\ page_mapping[5] = 15
    /\ \A j \in 1 .. 4 :
           j \in DOMAIN interpolated /\ interpolated[j] = 10 + j

\* C3: between consecutive anchors with 2 <= phys_gap <= 10 and
\* page_gap = phys_gap - 1, each interior index in increasing order gets the
\* next sequential number while that number is below num2, and exactly one
\* interior index (the last) is left unmapped.
C3_OneSkippedPage ==
    Returned =>
        \A idx1, idx2 \in DOMAIN page_mapping :
            ( /\ ConsecutiveAnchors(idx1, idx2)
              /\ 2 <= idx2 - idx1
              /\ idx2 - idx1 <= 10
              /\ page_mapping[idx2] - page_mapping[idx1] = idx2 - idx1 - 1 )
            => /\ \A j \in 1 .. (idx2 - idx1 - 1) :
                      IF page_mapping[idx1] + j < page_mapping[idx2]
                      THEN /\ idx1 + j \in DOMAIN interpolated
                           /\ interpolated[idx1 + j] = page_mapping[idx1] + j
                      ELSE idx1 + j \notin DOMAIN interpolated
               /\ Cardinality({x \in (idx1 + 1) .. (idx2 - 1) :
                                   x \notin DOMAIN interpolated}) = 1

\* C3 witness: anchors 0 -> 10 and 4 -> 13 gave 1 -> 11, 2 -> 12 and left
\* index 3 unmapped.
C3_Witness ==
    /\ Returned
    /\ DOMAIN page_mapping = {0, 4}
    /\ page_mapping[0] = 10
    /\ page_mapping[4] = 13
    /\ DOMAIN interpolated = {0, 1, 2, 4}
    /\ interpolated[1] = 11
    /\ interpolated[2] = 12

\* the gap relations of C4 under which nothing is filled
C4_Unfilled(phys_gap, page_gap) ==
    \/ phys_gap <= 1
    \/ phys_gap > 10
    \/ page_gap < phys_gap - 2
    \/ page_gap > phys_gap + 2
    \/ page_gap = phys_gap + 1
    \/ page_gap = phys_gap + 2
    \/ page_gap = phys_gap - 2

\* C4: the interior indices of two consecutive anchors are absent from the
\* returned mapping when phys_gap <= 1, phys_gap > 10, page_gap is outside
\* [phys_gap-2, phys_gap+2], or page_gap is phys_gap+1, phys_gap+2 or
\* phys_gap-2; the backward and forward passes do not fill them either.
C4_UnhandledGapsStayUnmapped ==
    Returned =>
        \A idx1, idx2 \in DOMAIN page_mapping :
            ( /\ ConsecutiveAnchors(idx1, idx2)
              /\ C4_Unfilled(idx2 - idx1,
                             page_mapping[idx2] - page_mapping[idx1]) )
            => \A x \in (idx1 + 1) .. (idx2 - 1) :
                   x \notin DOMAIN interpolated

\* C4 witness: a gap of 11 with matching numbers (0 -> 1, 11 -> 12) is left
\* unfilled.
C4_Witness ==
    /\ Returned
    /\ DOMAIN page_mapping = {0, 11}
    /\ page_mapping[0] = 1
    /\ page_mapping[11] = 12
    /\ DOMAIN interpolated = {0, 11}

\* C5: with first anchor (idx0,num0), some index before idx0 is mapped iff
\* num0 > 1 and num0-1 <= idx0; then each idx < idx0 with
\* num0-(idx0-idx) >= 1 is mapped to that number and all lower indices are
\* unmapped.
C5_BackwardExtension ==
    (Returned /\ DOMAIN page_mapping # {}) =>
        LET idx0  == FirstAnchor
            num0  == page_mapping[idx0]
            fires == num0 > 1 /\ num0 - 1 <= idx0
        IN  /\ (\E idx \in 0 .. (idx0 - 1) : idx \in DOMAIN interpolated)
                   <=> fires
            /\ fires =>
                   \A idx \in 0 .. (idx0 - 1) :
                       IF num0 - (idx0 - idx) >= 1
                       THEN /\ idx \in DOMAIN interpolated
                            /\ interpolated[idx] = num0 - (idx0 - idx)
                       ELSE idx \notin DOMAIN interpolated

\* C5 witness: first anchor 4 -> 2: the walk gave 3 -> 1 and stopped,
\* leaving 0, 1 and 2 unmapped.
C5_Witness ==
    /\ Returned
    /\ DOMAIN page_mapping # {}
    /\ FirstAnchor = 4
    /\ page_mapping[4] = 2
    /\ {x \in 0 .. 3 : x \in DOMAIN interpolated} = {3}
    /\ interpolated[3] = 1

\* C6: the indices after the last anchor (idxN,numN) are mapped, each idx to
\* numN+(idx-idxN), when there are at least two anchors and the last two are
\* physically adjacent, whatever their printed numbers; otherwise none of
\* them is mapped.
C6_ForwardExtension ==
    (Returned /\ DOMAIN page_mapping # {}) =>
        LET idxN  == LastAnchor
            numN  == page_mapping[idxN]
            fires == /\ Cardinality(DOMAIN page_mapping) >= 2
                     /\ idxN - 1 \in DOMAIN page_mapping
        IN  \A idx \in (idxN + 1) .. (total_pages - 1) :
                IF fires
                THEN /\ idx \in DOMAIN interpolated
                     /\ interpolated[idx] = numN + (idx - idxN)
                ELSE idx \notin DOMAIN interpolated

\* C6 witness: the last two anchors are adjacent with printed numbers that
\* are not consecutive, and at least two trailing indices were filled.
C6_Witness ==
    /\ Returned
    /\ Cardinality(DOMAIN page_mapping) >= 2
    /\ LastAnchor - 1 \in DOMAIN page_mapping
    /\ page_mapping[LastAnchor] - page_mapping[LastAnchor - 1] # 1
    /\ LastAnchor + 2 < total_pages
    /\ \A idx \in (LastAnchor + 1) .. (total_pages - 1) :
           idx \in DOMAIN interpolated

----------------------------------------------------------------------------
(* Properties of extract_page_number_from_text, read in the state reached  *)
(* by its return or by the exception it raises.                            *)

\* the call raised ValueError
Raised == pc = "raised"

\* the call is over
Ended == Returned \/ Raised

\* the Python int n lies in [1, 9999]: it has at most four digits and is
\* neither negative nor 0
InPageRange(n) == Len(n) <= 4 /\ n[1] \notin {"-", "0"}

\* pattern k matches the line and its captured integer lies in [1, 9999]
Accepted(line, k) ==
    Search(k, line) # NoMatch /\ InPageRange(ToInt(Search(k, line)))

\* the (line, pattern) pairs with an accepted match among the first five
\* of the given lines
AcceptedIn(lines) ==
    {c \in (1 .. Len(lines)) \X (1 .. 5) :
         c[1] <= 5 /\ Accepted(lines[c[1]], c[2])}

\* the first of a set of (line, pattern) pairs, the lines taken in order
\* and on each line the patterns in order
FirstPair(pairs) ==
    CHOOSE c \in pairs :
        \A d \in pairs : c[1] < d[1] \/ (c[1] = d[1] /\ c[2] <= d[2])

\* printed_num is the first accepted match of the first five of the given
\* lines, the lines taken in order and on each line the patterns in order;
\* it is None when there is no accepted match
FirstAcceptedOf(lines) ==
    IF AcceptedIn(lines) = {} THEN printed_num = None
    ELSE printed_num =
             IntOf(ToInt(Search(FirstPair(AcceptedIn(lines))[2],
                                lines[FirstPair(AcceptedIn(lines))[1]])))

\* pattern k matches the line with a numeral of more than MaxStrDigits
\* digits
Overlong(line, k) ==
    Search(k, line) # NoMatch /\ Len(Search(k, line)) > MaxStrDigits

\* the (line, pattern) pairs among the first five of the given lines whose
\* match is accepted and not overlong, or overlong
DecisiveIn(lines) ==
    {c \in (1 .. Len(lines)) \X (1 .. 5) :
         /\ c[1] <= 5
         /\ Accepted(lines[c[1]], c[2]) \/ Overlong(lines[c[1]], c[2])}

\* the call ended as the first decisive match of the first five of the
\* given lines says: it raised when that match is overlong, it returned the
\* captured integer when not, and it returned None when there is none
FirstDecisiveOf(lines) ==
    IF DecisiveIn(lines) = {} THEN Returned /\ printed_num = None
    ELSE IF Overlong(lines[FirstPair(DecisiveIn(lines))[1]],
                     FirstPair(DecisiveIn(lines))[2])
    THEN Raised
    ELSE /\ Returned
         /\ printed_num =
                IntOf(ToInt(Search(FirstPair(DecisiveIn(lines))[2],
                                   lines[FirstPair(DecisiveIn(lines))[1]])))

\* C7 as stated: the result is the first accepted match of the first five
\* lines of the page's text (line order before pattern order), so a numeral
\* after the fifth line of the text is never detected.
C7_FirstMatchInTextLines ==
    Returned => FirstAcceptedOf(Split(text))

\* C7 amended: the result is the first accepted match of the first five
\* lines of the text after its leading and trailing whitespace (blank lines
\* included) has been stripped, line order before pattern order; the call
\* raises ValueError instead when a match with a numeral of more than
\* MaxStrDigits digits comes before every accepted match in that order.
C7_FirstMatchInStrippedLines ==
    Ended => FirstDecisiveOf(Split(Strip(text)))

\* C7 witness: the first line has only a match of the last pattern, the
\* second line a match of the first pattern, and the first line's won.
C7_Witness ==
    /\ Returned
    /\ Len(Split(Strip(text))) >= 2
    /\ LET lines == Split(Strip(text))
       IN  /\ \A k \in 1 .. 4 : Search(k, lines[1]) = NoMatch
           /\ Accepted(lines[1], 5)
           /\ Accepted(lines[2], 1)
           /\ printed_num = IntOf(ToInt(Search(5, lines[1])))
           /\ printed_num # IntOf(ToInt(Search(1, lines[2])))

\* the numerals (maximal runs of digits) of a line
Numerals(line) ==
    {SubSeq(line, a, SkipDigits(line, a) - 1) :
        a \in {i \in 1 .. Len(line) :
                  line[i] \in Digits /\ At(line, i - 1) \notin Digits}}

\* the scanned prefix: the first five lines of the stripped text
Scanned == LET lines == Split(Strip(text))
           IN  SubSeq(lines, 1, IF Len(lines) < 5 THEN Len(lines) ELSE 5)

\* C8: the call returns, and its result is None or an integer in [1, 9999];
\* a match with a captured integer outside [1, 9999] is rejected and the scan
\* goes on with the next pattern and the next line, so an accepted match
\* anywhere in the scanned prefix is still found; a scanned prefix whose
\* numerals are all outside [1, 9999] gives None.  (The call that line 56
\* ends with ValueError, on a numeral of more than MaxStrDigits digits,
\* does not return.)
C8_OnlyPlausibleNumbers ==
    Ended =>
        /\ Returned
        /\ printed_num = None \/ printed_num \in 1 .. 9999
        /\ (\E i \in 1 .. Len(Scanned) : \E k \in 1 .. 5 :
                Accepted(Scanned[i], k))
               => printed_num \in 1 .. 9999
        /\ (\A i \in 1 .. Len(Scanned) : \A n \in Numerals(Scanned[i]) :
                ~InPageRange(ToInt(n)))
               => printed_num = None

\* C9: a page whose text is nothing but the numeral n (1 <= n <= 9999) on a
\* line of its own among the first five lines is detected as n.
C9_LoneNumeralDetected ==
    (Ended /\ page_label # 0) => (Returned /\ printed_num = page_label)

\* C9 witness: 9999 alone on the fifth line was detected.
C9_Witness ==
    /\ Returned
    /\ page_label = 9999
    /\ text = <<"\n", "\n", "\n", "\n", "9", "9", "9", "9">>
    /\ printed_num = 9999

----------------------------------------------------------------------------
(* Properties of detect_page_numbers.                                      *)

\* the extraction of the page's text, or of a number from it, raises
Fails(page) ==
    page.raises \/ extract_page_number_from_text(page.text) = Raises

\* the mapping the scan must return: the pages whose text extraction
\* succeeded and in whose text a number is detected
ExpectedMapping ==
    [idx \in {i \in 0 .. (Len(pages) - 1) :
                 /\ ~Fails(pages[i + 1])
                 /\ extract_page_number_from_text(pages[i + 1].text) # None}
        |-> extract_page_number_from_text(pages[idx + 1].text)]

\* the pages visited so far are 1 .. physical_idx, each once, in order
VisitedInOrder ==
    /\ Len(log) = physical_idx
    /\ \A i \in 1 .. Len(log) : log[i].page = i

\* a step of the scan visits the next page (so total_pages - physical_idx
\* falls with every step), keeps every recorded entry, and records nothing
\* for a page whose text extraction fails
ScanStepKeepsEntries ==
    (pc = "scan" /\ pc' = "scan") =>
        /\ physical_idx' = physical_idx + 1
        /\ physical_idx' <= total_pages
        /\ \A k \in DOMAIN page_mapping :
               k \in DOMAIN page_mapping' /\ page_mapping'[k] = page_mapping[k]
        /\ Fails(pages[physical_idx + 1]) => page_mapping' = page_mapping

\* C10: the scan visits every physical index 0..total-1 once, in increasing
\* order, and always ends returning a mapping (until it has returned, the
\* loop either has a next page, read without failing the scan, or returns;
\* every step brings physical_idx closer to total_pages); a page whose text
\* extraction fails is left out of the mapping, changes no recorded entry,
\* and every later page is still scanned and recorded.
C10_ScanSurvivesFailures ==
    /\ [](pc = "scan" =>
              /\ VisitedInOrder
              /\ physical_idx <= total_pages
              /\ MorePages \/ NoMorePages
              /\ MorePages => (physical_idx + 1) \in DOMAIN pages)
    /\ [][ScanStepKeepsEntries]_vars
    /\ [](pc = "detected" =>
              /\ VisitedInOrder
              /\ physical_idx = total_pages
              /\ page_mapping = ExpectedMapping)

\* C10 witness: the scan returned a mapping with entries for a page before
\* and a page after a page whose text extraction failed.
C10_Witness ==
    /\ pc = "detected"
    /\ \E i, j, k \in 1 .. Len(pages) :
          /\ i < j
          /\ j < k
          /\ pages[j].raises
          /\ (i - 1) \in DOMAIN page_mapping
          /\ (k - 1) \in DOMAIN page_mapping
          /\ (j - 1) \notin DOMAIN page_mapping

----------------------------------------------------------------------------
(* Properties of the three passes of interpolate_missing_pages.            *)

\* the passes, each run alone on the copy of the detected mapping
AnchorSeq == SortedSeq(DOMAIN page_mapping)
InteriorAlone ==
    InteriorPass(CopyOfMapping(page_mapping), page_mapping, AnchorSeq, 1)
BackwardAlone ==
    BackwardPass(CopyOfMapping(page_mapping), page_mapping, AnchorSeq)
ForwardAlone ==
    ForwardPass(CopyOfMapping(page_mapping), page_mapping, AnchorSeq,
                total_pages)

\* the indices a pass wrote
WrittenBy(result) == (DOMAIN result) \ (DOMAIN page_mapping)

\* the three passes composed in the six possible orders
PassOrders ==
    LET m  == page_mapping
        d  == AnchorSeq
        t  == total_pages
        c  == CopyOfMapping(m)
        I(x) == InteriorPass(x, m, d, 1)
        B(x) == BackwardPass(x, m, d)
        F(x) == ForwardPass(x, m, d, t)
    IN  <<F(B(I(c))), B(F(I(c))), F(I(B(c))), I(F(B(c))), B(I(F(c))),
          I(B(F(c)))>>

\* the indices the loop of lines 183-190 visits with inferred_page >= 1
BackwardCandidates ==
    IF BackfillApplies(page_mapping[FirstAnchor], FirstAnchor)
    THEN {k \in 0 .. FirstAnchor - 1 :
              page_mapping[FirstAnchor] - (FirstAnchor - k) >= 1}
    ELSE {}

\* the indices the loop of lines 203-208 visits
ForwardCandidates ==
    IF ForwardApplies(AnchorSeq)
    THEN (LastAnchor + 1) .. (total_pages - 1)
    ELSE {}

\* C17: the interior pass writes only strictly between the first and the
\* last anchor, the backward pass only strictly before the first anchor and
\* the forward pass only strictly after the last one; no index the backward
\* or the forward loop visits is already mapped when the loop reaches it, so
\* each of them is written by that loop; and the three passes composed in
\* any of their six orders give the map the call returns.
C17_PassesDisjoint ==
    (Returned /\ DOMAIN page_mapping # {}) =>
        /\ \A k \in WrittenBy(InteriorAlone) :
               FirstAnchor < k /\ k < LastAnchor
        /\ \A k \in WrittenBy(BackwardAlone) : k < FirstAnchor
        /\ \A k \in WrittenBy(ForwardAlone) : k > LastAnchor
        /\ \A k \in BackwardCandidates :
               /\ k \notin DOMAIN InteriorAlone
               /\ k \in DOMAIN interpolated
               /\ interpolated[k] = BackwardAlone[k]
        /\ \A k \in ForwardCandidates :
               /\ k \notin DOMAIN InteriorAlone
               /\ k \notin DOMAIN BackwardAlone
               /\ k \in DOMAIN interpolated
               /\ interpolated[k] = ForwardAlone[k]
        /\ \A i \in 1 .. Len(PassOrders) : PassOrders[i] = interpolated

\* C17 witness: a call in which each of the three passes wrote an index.
C17_Witness ==
    /\ Returned
    /\ DOMAIN page_mapping # {}
    /\ WrittenBy(InteriorAlone) # {}
    /\ WrittenBy(BackwardAlone) # {}
    /\ WrittenBy(ForwardAlone) # {}
    /\ WrittenBy(interpolated) =
          WrittenBy(InteriorAlone) \cup WrittenBy(BackwardAlone)
            \cup WrittenBy(ForwardAlone)

\* C18: whether the indices after the last anchor are mapped is decided by
\* the detected anchors alone: when the index before the last anchor holds
\* no detected number, no index after the last anchor is mapped, also when
\* the interior pass has given that index, and every other index between
\* the last two anchors, an inferred number; and no index before the first
\* anchor is mapped unless the first anchor's own number leaves room for it.
C18_AnchorsOnly ==
    (Returned /\ DOMAIN page_mapping # {}) =>
        /\ (LastAnchor - 1 \notin DOMAIN page_mapping) =>
               \A idx \in (LastAnchor + 1) .. (total_pages - 1) :
                   idx \notin DOMAIN interpolated
        /\ (\E idx \in Inferred : idx > LastAnchor) =>
               /\ Cardinality(DOMAIN page_mapping) >= 2
               /\ LastAnchor - 1 \in DOMAIN page_mapping
        /\ (\E idx \in Inferred : idx < FirstAnchor) =>
               /\ page_mapping[FirstAnchor] > 1
               /\ page_mapping[FirstAnchor] - 1 <= FirstAnchor

\* C18 witness: anchors 0->1 and 2->3 in a 5-page document: index 1 was
\* inferred, indices 3 and 4 stay unmapped.
C18_Witness ==
    /\ Returned
    /\ total_pages = 5
    /\ page_mapping = (0 :> 1) @@ (2 :> 3)
    /\ interpolated = (0 :> 1) @@ (1 :> 2) @@ (2 :> 3)

\* C19: for a detected mapping with keys in 0..total_pages-1 and values
\* >= 1, every key of the returned map lies in 0..total_pages-1 and every
\* value of it, detected or inferred, is an integer >= 1; an inferred value
\* after the last anchor is the anchor's number plus the distance also when
\* that exceeds 9999.
C19_WellFormedMap ==
    (/\ Returned
     /\ \A k \in DOMAIN page_mapping :
            k \in 0 .. (total_pages - 1) /\ page_mapping[k] >= 1) =>
        /\ \A k \in DOMAIN interpolated :
               /\ k \in 0 .. (total_pages - 1)
               /\ interpolated[k] \in Nat
               /\ interpolated[k] >= 1
        /\ \A k \in Inferred :
               (k > LastAnchor
                  /\ page_mapping[LastAnchor] + (k - LastAnchor) > 9999) =>
                   interpolated[k] > 9999

\* C19 witness: every detected number is at most 9999 and an inferred one
\* is larger than 9999.
C19_Witness ==
    /\ Returned
    /\ \A k \in DOMAIN page_mapping : page_mapping[k] <= 9999
    /\ \E k \in Inferred : interpolated[k] > 9999

----------------------------------------------------------------------------
(* Properties of parse_page_ranges, read in the state reached by its       *)
(* return.                                                                 *)

\* the numbers a token stands for: n for the number n, every integer of
\* a..b for the range a-b with a <= b, none for any other token
Contribution(t) ==
    CASE t.kind = "num" -> {Decimal(t.a)}
      [] t.kind = "range" -> {Decimal(n) : n \in t.a .. t.b}
      [] t.kind = "numeral" -> {t.junk}
      [] t.kind = "wide" -> {t.junk \o Decimal(n) : n \in t.a .. t.b}
      [] OTHER -> {}

\* the elements of a sequence
Elements(s) == {s[i] : i \in 1 .. Len(s)}

\* the numeral x of a number that is not negative is shorter than the
\* numeral y, or as long and before it in the order of the dictionary
Shorter(x, y) ==
    \/ Len(x) < Len(y)
    \/ /\ Len(x) = Len(y)
       /\ \A i \in 1 .. Len(x) :
              (\A k \in 1 .. (i - 1) : x[k] = y[k]) =>
                  (CHOOSE d \in 0 .. 9 : DigitChars[d + 1] = x[i])
                      <= (CHOOSE d \in 0 .. 9 : DigitChars[d + 1] = y[i])

\* s is strictly ascending: sorted and without duplicates
StrictlyAscending(s) ==
    \A i \in 1 .. Len(s) : \A j \in 1 .. Len(s) :
        i < j => (s[i] # s[j] /\ Shorter(s[i], s[j]))


\* C14: the returned list holds exactly the numbers its valid tokens stand
\* for, wherever the invalid tokens (not an integer, a malformed range, a
\* range with start > end) stand among them, and it is sorted and without
\* duplicates.
C14_InvalidTokensSkipped ==
    (pc = "parsed") =>
        /\ Elements(requested_pages) =
               UNION {Contribution(tokens[i]) : i \in 1 .. Len(tokens)}
        /\ StrictlyAscending(requested_pages)

\* C14 witness: a token that is not an integer, then a range with
\* start > end, then a valid range whose numbers are all returned.
C14_Witness ==
    /\ pc = "parsed"
    /\ Len(tokens) = 3
    /\ tokens[1] = JunkToken(<<"x">>)
    /\ tokens[2] = RangeToken(3, 1, 0)
    /\ tokens[3] = RangeToken(2, 4, 1)
    /\ requested_pages = << <<"2">>, <<"3">>, <<"4">> >>

----------------------------------------------------------------------------
(* Properties of filter_pdf_pages, read in the state reached by its        *)
(* return.                                                                 *)

Filtered == pc = "filtered"

\* the call got as far as the selection: a page was requested and the
\* reader opened the document
SelectionRan ==
    /\ requested_pages # <<>>
    /\ env.pdf_error \notin {"FileNotFoundError", "ReadError"}

\* detection found no printed number on any page / found one
NothingDetected == Filtered /\ SelectionRan /\ DOMAIN page_mapping = {}
PrintedMode == Filtered /\ SelectionRan /\ DOMAIN page_mapping # {}

\* the requested number p is the position of a physical page
IsPosition(p) == \E n \in 1 .. total_pages : p = Decimal(n)

\* the position a requested number names
PositionOf(p) == CHOOSE n \in 1 .. total_pages : p = Decimal(n)

\* some physical index of the final map carries the requested number r
Matched(r) == \E k \in DOMAIN interpolated : Decimal(interpolated[k]) = r

\* C11: when detection found no printed number on any page, the call goes
\* on in physical mode without interpolating: the pages added are, in the
\* order of the requested numbers, the physical pages p-1 of the requested
\* p with 1 <= p <= total_pages; every other requested number is reported
\* and skipped; and the call returns True exactly when a page was added and
\* writing the output raised nothing.
C11_FallbackToPhysical ==
    NothingDetected =>
        LET positions == SelectSeq(requested_pages, IsPosition)
        IN  /\ ~use_printed_numbers
            /\ DOMAIN interpolated = {}
            /\ pages_added = positions
            /\ output =
                 [i \in 1 .. Len(positions) |-> PositionOf(positions[i]) - 1]
            /\ warnings =
                 SelectSeq(requested_pages, LAMBDA p : ~IsPosition(p))
            /\ success =
                 (positions # <<>> /\ env.pdf_error # "WriteError")

\* C11 witness: no number was detected in a document with pages; one
\* requested number was skipped with a warning, another was taken by
\* position, and the call returned True.
C11_Witness ==
    /\ NothingDetected
    /\ total_pages > 0
    /\ warnings # <<>>
    /\ output # <<>>
    /\ \A i \in 1 .. Len(output) : pages_added[i] = Decimal(output[i] + 1)
    /\ success

\* C12: in printed-number mode the physical indices added to the output are
\* exactly the keys of the final map whose number was requested: all the
\* indices that carry a requested number, none that carries another number,
\* none that has no entry.
C12_ReverseLookup ==
    PrintedMode =>
        /\ use_printed_numbers
        /\ Elements(output) =
             {k \in DOMAIN interpolated :
                  Decimal(interpolated[k]) \in Elements(requested_pages)}
        /\ \A k \in 0 .. (total_pages - 1) :
               (k \notin DOMAIN interpolated) => k \notin Elements(output)

\* C12 witness: two physical indices carry the same requested number and
\* both were added, an index with a number that was not requested and an
\* index without an entry were not.
C12_Witness ==
    /\ PrintedMode
    /\ \E a \in Elements(output) : \E b \in Elements(output) :
           a # b /\ interpolated[a] = interpolated[b]
    /\ \E k \in DOMAIN interpolated : k \notin Elements(output)
    /\ \E k \in 0 .. (total_pages - 1) : k \notin DOMAIN interpolated

\* the parts C13 and its original statement have in common: the warnings
\* are the requested numbers without a page, in order, and the numbers of
\* the pages added are the requested numbers with a page
MissesOnlyWarn ==
    /\ warnings = SelectSeq(requested_pages, LAMBDA r : ~Matched(r))
    /\ Elements(pages_added) = {r \in Elements(requested_pages) : Matched(r)}

\* C13 as stated: in printed-number mode a requested number without a page
\* is reported and the others are still selected; the call returns True and
\* writes the output whenever a requested number has a page, and returns
\* False and writes nothing when none has.
C13_SucceedsIffMatched ==
    PrintedMode =>
        /\ MissesOnlyWarn
        /\ success = (\E r \in Elements(requested_pages) : Matched(r))
        /\ written = success

\* C13: in printed-number mode a requested number without a page is
\* reported and the others are still selected; the call returns True and
\* writes the output whenever a requested number has a page and writing the
\* output raises no error, and returns False without an output otherwise.
C13_SucceedsIffMatchedAndWritable ==
    PrintedMode =>
        /\ MissesOnlyWarn
        /\ success = /\ \E r \in Elements(requested_pages) : Matched(r)
                     /\ env.pdf_error # "WriteError"
        /\ written = success

\* C13 witness: the first requested number has no page and was reported, a
\* later one has a page that was added, and the call returned True.
C13_Witness ==
    /\ PrintedMode
    /\ ~Matched(requested_pages[1])
    /\ warnings # <<>>
    /\ \E i \in 2 .. Len(requested_pages) :
           /\ Matched(requested_pages[i])
           /\ requested_pages[i] \in Elements(pages_added)
    /\ success
    /\ written

\* the printed number under which the i-th page of the output was selected
SelectedAs(i) ==
    IF use_printed_numbers THEN interpolated[output[i]] ELSE output[i] + 1

\* C16: the pages of the output stand in ascending order of the number they
\* were selected under; the output is the same when the tokens of the range
\* expression are written in the opposite order; and on the 10-page
\* document with detections only at index 0 (number 1) and index 9 (number
\* 10), the expression 1,5,10 selects the physical indices 0, 4, 9 in that
\* order.
C16_AscendingOrder ==
    Filtered =>
        /\ \A i \in 1 .. Len(output) : \A j \in 1 .. Len(output) :
               i < j => SelectedAs(i) <= SelectedAs(j)
        /\ \A i \in 1 .. Len(output) : pages_added[i] = Decimal(SelectedAs(i))
        /\ output = filter_pdf_pages(RenderTokens(Reversed(tokens)), pages,
                                     env.pdf_error).output
        /\ (/\ SelectionRan
            /\ total_pages = 10
            /\ page_mapping = (0 :> 1) @@ (9 :> 10)
            /\ range_string = <<"1", ",", "5", ",", "1", "0">>) =>
               output = <<0, 4, 9>>

\* C16 witness: on that document the expression 10,5,1 selected the
\* physical indices 0, 4, 9 in that order.
C16_Witness ==
    /\ Filtered
    /\ total_pages = 10
    /\ page_mapping = (0 :> 1) @@ (9 :> 10)
    /\ range_string = <<"1", "0", ",", "5", ",", "1">>
    /\ requested_pages = << <<"1">>, <<"5">>, <<"1", "0">> >>
    /\ output = <<0, 4, 9>>

\* C20: in either mode no physical index occurs twice in the output, and
\* the length of pages_added, the number reported, is the number of
\* distinct physical pages of the output.
C20_NoPageTwice ==
    Filtered =>
        /\ \A i \in 1 .. Len(output) : \A j \in 1 .. Len(output) :
               i # j => output[i] # output[j]
        /\ Len(pages_added) = Cardinality(Elements(output))

\* C20 witness: the expression 1-3,2-5 has overlapping ranges; the pages
\* numbered 2 and 3, which both ranges name, are in the output.
C20_Witness ==
    /\ PrintedMode
    /\ tokens = <<RangeToken(1, 3, 0), RangeToken(2, 5, 0)>>
    /\ \E a \in Elements(output) : interpolated[a] = 2
    /\ \E b \in Elements(output) : interpolated[b] = 3
    /\ success

----------------------------------------------------------------------------
(* Properties of main, read in the state reached by its exit.              *)

Exited == pc = "exited"

\* main exited at the question of line 404
Cancelled == ArgumentsAccepted /\ OverwriteDeclined

\* C15 as stated: main exits with 0 or 1; every run that exits with 0 has
\* written an output document, and every run that has written none exits
\* with 1.
C15_ExitZeroIffWritten ==
    Exited =>
        /\ exit_status \in {0, 1}
        /\ (exit_status = 0) => written
        /\ (~written) => (exit_status = 1)

\* C15: main exits with 0 or 1; a run exits with 0 exactly when it has
\* written an output document or when the user declined to overwrite an
\* existing output file, in which case it has written nothing; every other
\* run that has written no output document exits with 1.
C15_ExitZeroIffWrittenOrCancelled ==
    Exited =>
        /\ exit_status \in {0, 1}
        /\ (exit_status = 0) <=> (written \/ Cancelled)
        /\ Cancelled => ~written
        /\ (~written /\ ~Cancelled) => (exit_status = 1)

\* C15 witness: the output file existed, the answer was not y, and main
\* exited with 0 without writing.
C15_Witness ==
    /\ Exited
    /\ Cancelled
    /\ exit_status = 0
    /\ ~written

=============================================================================
